---- MODULE Spec2Model ----
(***************************************************************************)
(* Model of the terminal session recorder of pkg/record/recorder.go:       *)
(* StartSession, its two workers (output logger, input proxy), the         *)
(* StdinInterceptor and the ContextReader.                                 *)
(* Bytes are integers 0..255, byte strings are sequences of bytes.         *)
(***************************************************************************)
EXTENDS Integers, Sequences, FiniteSets, TLC

\* ---------------------------------------------------------------- bytes
\* the bytes the interceptor treats specially
NUL == 0
BS  == 8
LF  == 10
CR  == 13
DEL == 127

\* ---------------------------------------------------------------- bounds
\* longest keystroke stream enumerated exhaustively
MaxLen == 3

\* ------------------------------------------------------------ constants
\* capacity of the boundary channel: cmdCh := make(chan string, 1)
CmdChCap == 1

\* ------------------------------------------------------- pure functions
\* mutant: a trim that does not know the tab
IsSpaceNoTab(b) == b \in {10, 11, 12, 13, 32}

\* unicode.IsSpace restricted to single bytes (strings.TrimSpace)
IsSpace(b) == b \in {9, 10, 11, 12, 13, 32}

RECURSIVE TrimLeft(_)
TrimLeft(s) ==
    IF s = <<>> THEN <<>>
    ELSE IF IsSpace(Head(s)) THEN TrimLeft(Tail(s)) ELSE s

RECURSIVE TrimRight(_)
TrimRight(s) ==
    IF s = <<>> THEN <<>>
    ELSE IF IsSpace(s[Len(s)]) THEN TrimRight(SubSeq(s, 1, Len(s) - 1)) ELSE s

\* strings.TrimSpace
TrimSpace(s) == TrimRight(TrimLeft(s))

\* bytes.IndexByte: 0-based index of the first b in s, -1 when absent
IndexByte(s, b) ==
    IF \E k \in 1..Len(s) : s[k] = b
    THEN (CHOOSE k \in 1..Len(s) : s[k] = b /\ \A j \in 1..(k - 1) : s[j] # b) - 1
    ELSE -1

\* mutant: only LF ends a line
TermIdxOnlyLF(buf) == IndexByte(buf, LF)

\* the terminator the scan loop picks: the earlier of the first LF and CR
TermIdx(buf) ==
    LET idxN == IndexByte(buf, LF)
        idxR == IndexByte(buf, CR)
    IN  IF idxN = -1 /\ idxR = -1 THEN -1
        ELSE IF idxN = -1 THEN idxR
        ELSE IF idxR = -1 THEN idxN
        ELSE IF idxN < idxR THEN idxN
        ELSE idxR

\* mutant: DEL is not treated as an erase code
ApplyByteOnlyBS(buf, b) ==
    IF b = BS
    THEN IF Len(buf) > 0 THEN SubSeq(buf, 1, Len(buf) - 1) ELSE buf
    ELSE IF b # NUL THEN Append(buf, b) ELSE buf

\* one iteration of the byte loop of StdinInterceptor.Read
ApplyByte(buf, b) ==
    IF b = DEL \/ b = BS
    THEN IF Len(buf) > 0 THEN SubSeq(buf, 1, Len(buf) - 1) ELSE buf
    ELSE IF b # NUL THEN Append(buf, b) ELSE buf

\* cfg := &sessionConfig{}
NoConfig == [slackAudit |-> FALSE, slackChannel |-> "", token |-> "", slackThreadTS |-> ""]

\* the option WithSlackAudit(o.channel, o.token) applied to c, where started
\* is what api.StartSlackAuditThread returned: "" for an error, else the ts
WithSlackAudit(o, c, started) ==
    [slackAudit |-> TRUE, slackChannel |-> o.channel, token |-> o.token,
     slackThreadTS |-> IF started # "" THEN started ELSE c.slackThreadTS]

\* what api.StartSlackAuditThread(channel, token) can return: an error for
\* an empty token or channel, else an error or the thread's ts
ThreadTS == "1700000000.000100"
StartSlackAuditThread(channel, token) ==
    IF token = "" \/ channel = "" THEN {""} ELSE {"", ThreadTS}

\* for _, opt := range opts { opt(cfg) }: the configs the options can leave
RECURSIVE ApplyOptions(_, _)
ApplyOptions(os, c) ==
    IF os = <<>> THEN {c}
    ELSE UNION { ApplyOptions(Tail(os), WithSlackAudit(Head(os), c, ts)) :
                   ts \in StartSlackAuditThread(Head(os).channel, Head(os).token) }

\* api.SendSlackAudit(command, channel, token, threadTS): returns at once
\* for an empty token or channel, else posts one request; its errors are
\* swallowed
SendSlackAudit(command, channel, token) ==
    [command |-> command, posted |-> ~(token = "" \/ channel = "")]

\* mutant: the audit hook ignores the configuration
AuditCallsAlways(c, text, log) == Append(log, SendSlackAudit(text, c.slackChannel, c.token))

\* if s.cfg != nil && s.cfg.slackAudit { go api.SendSlackAudit(trimmed, ...) }
AuditCalls(c, text, log) ==
    IF c.slackAudit THEN Append(log, SendSlackAudit(text, c.slackChannel, c.token))
    ELSE log

\* Command{Timestamp: time.Now(), Input: trimmed}
NewCommand(t, in) ==
    [Timestamp |-> t, Input |-> in, Output |-> <<>>, Comment |-> <<>>, Redacted |-> FALSE]

\* ---------------------------------------------------------------- state
VARIABLES
    Commands,       \* session.Commands
    muHeld,         \* the goroutines inside session.mu ("R" reader, "OL" logger)
    now,            \* the clock time.Now() reads
    cmdCh,          \* buffered contents of the boundary channel
    cmdChClosed,    \* close(cmdCh) has run
    doneClosed,     \* close(done) has run
    ctxCancelled,   \* cancel() has run
    ptmxClosed,     \* ptmx.Close() has run
    wg,             \* the WaitGroup counter
    crash,          \* "none", or the runtime panic that killed the process
    stdin,          \* keystrokes os.Stdin has not delivered yet
    stdinEOF,       \* whether os.Stdin reports end-of-stream after them
    consumed,       \* keystrokes delivered so far (history)
    childExited,    \* the shell has exited
    childOut,       \* bytes the shell is still going to print
    ptyBuf,         \* bytes printed and not yet read from the PTY master
    script,         \* scripted runs: the events the environment still plays
    pcR,            \* position of the goroutine running interceptor.Read
    rP,             \* p[:n] of the current interceptor.Read
    rErr,           \* err of the upstream read: "nil" or "EOF"
    rI,             \* loop index i of the byte loop (1-based)
    lineBuf,        \* s.lineBuf
    trimmed,        \* trimmed of the line being logged
    rAt,            \* which copy of the logging code runs: "line" or "eof"
    rSnap,          \* the slice value append() has read and is extending
    readCh,         \* the result channel of the current ContextReader.Read
    pcIP,           \* position of the input proxy goroutine
    ipRes,          \* (n, err) the io.Copy loop got from ctxReader.Read
    ptyIn,          \* bytes written to the PTY master (history)
    pcOL,           \* position of the output logger goroutine
    olWhy,          \* which branch of the logger loop is flushing
    outputBuf,      \* outputBuf
    currentCmdIdx,  \* currentCmdIdx
    lastCmdIdx,     \* lastCmdIdx
    rdBuf,          \* bytes buffered inside ptyReader (bufio.Reader)
    termOut,        \* bytes echoed to os.Stdout (history)
    pcMain,         \* position of StartSession after the workers are started
    sent,           \* texts accepted by cmdCh so far (history)
    flushLog,       \* <<index, value>> of every output write so far (history)
    bndAt,          \* len(termOut) at each boundary the logger processed (history)
    appendLog,      \* the Input of every Command appended so far (history)
    sigLog,         \* every pass of the interceptor's select for a line: the Command
                    \* it is for, the bytes the shell had printed, delivered or not (history)
    readAtCancel,   \* where ContextReader.Read's underlying read was when cancel() ran,
                    \* in the runs that write it down: "open" before cancel(), then
                    \* "nocall", "blocked", "running" or "done" (history)
    opts,           \* the options StartSession is called with, in order
    cfg,            \* the sessionConfig the options are applied to
    SlackThreadTS,  \* Session.SlackThreadTS
    auditLog,       \* the calls go api.SendSlackAudit(...) made so far: the command
                    \* text and whether the call posts a request
    auditDone,      \* how many of these goroutines have finished
    rawState,       \* the real terminal: "untried", "notty", "raw", "failed", "restored"
    ptyState,       \* pty.Start(cmd): "none", "started" or "failed"
    oaPc,           \* WaitForCode: "idle", "serving" (at its select) or "returned"
    oaPending,      \* what the callback handlers are blocked sending on codeCh, in order
    oaServed,       \* how many callbacks the server has taken so far
    oaRet,          \* what WaitForCode returned
    spPc,           \* the caller of the Spinner: "idle", or in Stop at "stopSend" or "stopWait"
    spLoop,         \* animation goroutines at their select
    spSending,      \* animation goroutines in s.done <- true
    spPos,          \* Spinner.pos
    spCalls,        \* calls of Start and Stop made so far
    spLast,         \* the call that returned last: "none", "start" or "stop"
    rb,             \* the RunbookModel
    rbPanic,        \* Update has panicked on an index out of range
    fSession,       \* the Session handed to the formatters
    md,             \* what ToMarkdown returned, once called
    js,             \* the SessionJSON ToJSON built and what it returned, once called
    parsed,         \* what json.Unmarshal made of it, once called
    tokStore,       \* the map of the mockKeyring
    tokGet,         \* what GetToken returned, when it was the last operation
    tokLast,        \* the token StoreToken stored last; never stored, or deleted since (history)
    apiReq,         \* the last call of the API client and the backend's reply
    apiRes          \* what that call returned

sessVars == <<Commands, muHeld, now>>
sigVars  == <<cmdCh, cmdChClosed, doneClosed, ctxCancelled, ptmxClosed, wg>>
inVars   == <<stdin, stdinEOF, consumed>>
childVars == <<childExited, childOut, ptyBuf, script>>
rVars    == <<pcR, rP, rErr, rI, lineBuf, trimmed, rAt, rSnap>>
ipVars   == <<pcIP, ipRes, ptyIn>>
olVars   == <<pcOL, olWhy, outputBuf, currentCmdIdx, lastCmdIdx, rdBuf, termOut>>
histVars == <<sent, flushLog, bndAt, appendLog, sigLog, readAtCancel>>
startVars == <<rawState, ptyState>>
auditVars == <<opts, cfg, SlackThreadTS, auditLog, auditDone>>
fmtVars == <<fSession, md, js, parsed>>

tokVars == <<tokStore, tokGet, tokLast>>
apiVars == <<apiReq, apiRes>>

oauthVars == <<oaPc, oaPending, oaServed, oaRet>>

spinVars == <<spPc, spLoop, spSending, spPos, spCalls, spLast>>

tuiVars == <<rb, rbPanic>>

\* the state of the packages around the recorder
otherVars == <<fmtVars, tokVars, apiVars, oauthVars, spinVars, tuiVars>>

\* the state of the recorder
recVars == <<sessVars, sigVars, inVars, childVars, rVars, readCh, ipVars, olVars,
             pcMain, crash, histVars, startVars, auditVars>>

vars == <<recVars, otherVars>>

\* ------------------------------------------------- runbook TUI (pure part)
\* A command is the sequence of its pieces, "t" for a stretch of text and
\* "p" for a placeholder <name>; a text input's value is "" or "v".

\* adjacent stretches of text are one stretch
RECURSIVE MergeText(_)
MergeText(c) ==
    IF Len(c) < 2 THEN c
    ELSE IF c[1] = "t" /\ c[2] = "t" THEN MergeText(Tail(c))
    ELSE <<c[1]>> \o MergeText(Tail(c))

\* parseCommandWithPlaceholders: one segment per piece, placeholders empty
parseCommandWithPlaceholders(c) ==
    [k \in 1..Len(c) |-> [Placeholder |-> c[k] = "p", Value |-> ""]]

\* FinalCommand: a placeholder with a value is written as its value
FinalCommand(m) ==
    MergeText([k \in 1..Len(m.segments) |->
                  IF m.segments[k].Placeholder /\ m.segments[k].Value = ""
                  THEN "p" ELSE "t"])

\* initSegments
initSegments(m) ==
    IF Len(m.steps) = 0 \/ m.index >= Len(m.steps)
    THEN [m EXCEPT !.segments = <<>>]
    ELSE [m EXCEPT !.segments = parseCommandWithPlaceholders(m.steps[m.index + 1].Command),
                   !.activeIdx = 0,
                   !.editing = FALSE]

\* NewRunbookModel(steps); the viewport is 8 lines high
NewRunbookModel(steps) ==
    initSegments([steps |-> steps, index |-> 0, output |-> "", quitting |-> FALSE,
                  busy |-> FALSE, segments |-> <<>>, activeIdx |-> 0, editing |-> FALSE,
                  textInput |-> "", fullEditMode |-> FALSE, fullEditInput |-> <<>>,
                  outputViewportHeight |-> 8, outputFocused |-> FALSE])

\* everything but the state of one package
notFmt == <<recVars, tokVars, apiVars, oauthVars, spinVars, tuiVars>>
notTok == <<recVars, fmtVars, apiVars, oauthVars, spinVars, tuiVars>>
notApi == <<recVars, fmtVars, tokVars, oauthVars, spinVars, tuiVars>>
notOAuth == <<recVars, fmtVars, tokVars, apiVars, spinVars, tuiVars>>
notSpin == <<recVars, fmtVars, tokVars, apiVars, oauthVars, tuiVars>>
notTui == <<recVars, fmtVars, tokVars, apiVars, oauthVars, spinVars>>

\* no formatter has been called
FmtIdle ==
    /\ fSession = [Commands |-> <<>>, SlackThreadTS |-> <<>>]
    /\ md = [called |-> FALSE, text |-> <<>>]
    /\ js = [called |-> FALSE, value |-> [Commands |-> <<>>, SlackThreadTS |-> <<>>],
             doc |-> <<>>]
    /\ parsed = [called |-> FALSE, Commands |-> <<>>, SlackThreadTS |-> <<>>]

\* the keyring is empty
TokIdle ==
    /\ tokStore = <<>>
    /\ tokGet = [called |-> FALSE, value |-> <<>>, err |-> "nil"]
    /\ tokLast = [has |-> "never", token |-> <<>>, prev |-> <<>>]

\* the API client has not been called
ApiIdle ==
    /\ apiReq = [fn |-> "none", id |-> <<>>,
                 reply |-> [sent |-> FALSE, status |-> 0, json |-> FALSE, text |-> <<>>]]
    /\ apiRes = [resp |-> "nil", doc |-> <<>>, markdown |-> <<>>,
                 err |-> [type |-> "nil", msg |-> <<>>, ID |-> <<>>]]

\* WaitForCode has not been called
OAuthIdle ==
    /\ oaPc = "idle"
    /\ oaPending = <<>>
    /\ oaServed = 0
    /\ oaRet = [code |-> "", err |-> "nil"]

\* a Spinner just made by New()
SpinIdle ==
    /\ spPc = "idle"
    /\ spLoop = 0
    /\ spSending = 0
    /\ spPos = 0
    /\ spCalls = 0
    /\ spLast = "none"

\* no runbook is loaded
TuiIdle ==
    /\ rb = NewRunbookModel(<<>>)
    /\ rbPanic = FALSE

\* the packages around the recorder are not in use
OtherIdle == FmtIdle /\ TokIdle /\ ApiIdle /\ OAuthIdle /\ SpinIdle /\ TuiIdle

\* the process is running (no goroutine has panicked)
Alive == crash = "none"

\* the state StartSession is in once both worker goroutines are started and
\* the main flow is at cmd.Wait(), for the keystrokes in and the shell output out
InitWith(ins, outs) ==
    /\ Commands = <<>>
    /\ muHeld = {}
    /\ now = 1
    /\ cmdCh = <<>>
    /\ cmdChClosed = FALSE
    /\ doneClosed = FALSE
    /\ ctxCancelled = FALSE
    /\ ptmxClosed = FALSE
    /\ wg = 2
    /\ crash = "none"
    /\ stdin \in ins
    /\ stdinEOF \in BOOLEAN
    /\ consumed = <<>>
    /\ childExited = FALSE
    /\ childOut \in outs
    /\ ptyBuf = <<>>
    /\ pcR = "idle"
    /\ rP = <<>>
    /\ rErr = "nil"
    /\ rI = 1
    /\ lineBuf = <<>>
    /\ trimmed = <<>>
    /\ rAt = "line"
    /\ rSnap = <<>>
    /\ readCh = <<>>
    /\ pcIP = "loop"
    /\ ipRes = [n |-> 0, err |-> "nil"]
    /\ ptyIn = <<>>
    /\ pcOL = "select"
    /\ olWhy = "none"
    /\ outputBuf = <<>>
    /\ currentCmdIdx = -1
    /\ lastCmdIdx = -1
    /\ rdBuf = <<>>
    /\ termOut = <<>>
    /\ pcMain = "wait"
    /\ sent = <<>>
    /\ flushLog = <<>>
    /\ bndAt = <<>>
    /\ appendLog = <<>>
    /\ sigLog = <<>>
    /\ readAtCancel = "open"
    /\ opts = <<>>
    /\ cfg = NoConfig
    /\ SlackThreadTS = ""
    /\ auditLog = <<>>
    /\ auditDone = 0
    /\ rawState = "raw"
    /\ ptyState = "started"

\* ------------------------------------------------ StdinInterceptor.Read
\* n, err := s.reader.Read(p): os.Stdin hands over any non-empty prefix of
\* the pending keystrokes, reports EOF when none is left and the stream has
\* ended, and blocks otherwise
RUpstream ==
    /\ Alive /\ pcR = "upstream"
    /\ \/ /\ stdin # <<>>
          /\ \E k \in 1..Len(stdin) :
                /\ rP' = SubSeq(stdin, 1, k)
                /\ stdin' = SubSeq(stdin, k + 1, Len(stdin))
                /\ consumed' = consumed \o SubSeq(stdin, 1, k)
          /\ rErr' = "nil"
          /\ rI' = 1
          /\ pcR' = "bytes"
       \/ /\ stdin = <<>> /\ stdinEOF
          /\ rP' = <<>>
          /\ rErr' = "EOF"
          /\ pcR' = "eof"
          /\ UNCHANGED <<stdin, consumed, rI>>
    /\ UNCHANGED <<sessVars, sigVars, stdinEOF, childVars, lineBuf, trimmed, rAt, rSnap,
                   readCh, ipVars, olVars, pcMain, crash, histVars>>
    /\ UNCHANGED startVars
    /\ UNCHANGED auditVars
    /\ UNCHANGED otherVars

\* one iteration of: for i := 0; i < n; i++ { b := p[i]; ... }
RByte ==
    /\ Alive /\ pcR = "bytes"
    /\ IF rI <= Len(rP)
       THEN /\ lineBuf' = ApplyByte(lineBuf, rP[rI])
            /\ rI' = rI + 1
            /\ pcR' = pcR
       ELSE /\ pcR' = "scan"
            /\ UNCHANGED <<lineBuf, rI>>
    /\ UNCHANGED <<sessVars, sigVars, inVars, childVars, rP, rErr, trimmed, rAt, rSnap,
                   readCh, ipVars, olVars, pcMain, crash, histVars>>
    /\ UNCHANGED startVars
    /\ UNCHANGED auditVars
    /\ UNCHANGED otherVars

\* one iteration of the line loop up to the select: cut the first line off
\* the buffer and trim it
RScan ==
    /\ Alive /\ pcR = "scan"
    /\ LET idx == TermIdx(lineBuf)
       IN  IF idx = -1
           THEN /\ pcR' = "eof"
                /\ UNCHANGED <<lineBuf, trimmed, rAt>>
           ELSE /\ lineBuf' = SubSeq(lineBuf, idx + 2, Len(lineBuf))
                /\ trimmed' = TrimSpace(SubSeq(lineBuf, 1, idx))
                /\ rAt' = "line"
                /\ pcR' = IF trimmed' # <<>> THEN "select" ELSE "scan"
    /\ UNCHANGED <<sessVars, sigVars, inVars, childVars, rP, rErr, rI, rSnap,
                   readCh, ipVars, olVars, pcMain, crash, histVars>>
    /\ UNCHANGED startVars
    /\ UNCHANGED auditVars
    /\ UNCHANGED otherVars

\* if err == io.EOF && len(s.lineBuf) > 0 { trimmed := ...; if trimmed != "" {
RAtEOF ==
    /\ Alive /\ pcR = "eof"
    /\ IF rErr = "EOF" /\ Len(lineBuf) > 0
       THEN /\ trimmed' = TrimSpace(lineBuf)
            /\ rAt' = "eof"
            /\ pcR' = IF trimmed' # <<>> THEN "select" ELSE "clear"
       ELSE /\ pcR' = "ret"
            /\ UNCHANGED <<trimmed, rAt>>
    /\ UNCHANGED <<sessVars, sigVars, inVars, childVars, rP, rErr, rI, lineBuf, rSnap,
                   readCh, ipVars, olVars, pcMain, crash, histVars>>
    /\ UNCHANGED startVars
    /\ UNCHANGED auditVars
    /\ UNCHANGED otherVars

\* select { case <-s.closed: return n, io.EOF; case s.cmdCh <- trimmed: ;
\* default: }  Go picks any ready case, default only when none is ready; a
\* send on a closed channel is ready and panics
RSelect ==
    /\ Alive /\ pcR = "select"
    /\ \/ /\ doneClosed
          /\ rErr' = "EOF"
          /\ pcR' = "ret"
          /\ UNCHANGED <<cmdCh, sent, crash, sigLog>>
       \/ /\ cmdChClosed
          /\ crash' = "send on closed channel"
          /\ UNCHANGED <<cmdCh, sent, rErr, pcR, sigLog>>
       \/ /\ ~cmdChClosed /\ Len(cmdCh) < CmdChCap
          /\ cmdCh' = Append(cmdCh, trimmed)
          /\ sent' = Append(sent, trimmed)
          /\ sigLog' = Append(sigLog, [cmd |-> Len(Commands) + 1, ok |-> TRUE,
                                       at |-> Len(termOut) + Len(rdBuf) + Len(ptyBuf)])
          /\ pcR' = "lock"
          /\ UNCHANGED <<rErr, crash>>
       \/ /\ ~doneClosed /\ ~cmdChClosed /\ Len(cmdCh) >= CmdChCap
          /\ sigLog' = Append(sigLog, [cmd |-> Len(Commands) + 1, ok |-> FALSE,
                                       at |-> Len(termOut) + Len(rdBuf) + Len(ptyBuf)])
          /\ pcR' = "lock"
          /\ UNCHANGED <<cmdCh, sent, rErr, crash>>
    /\ UNCHANGED <<sessVars, cmdChClosed, doneClosed, ctxCancelled, ptmxClosed, wg,
                   inVars, childVars, rP, rI, lineBuf, trimmed, rAt, rSnap,
                   readCh, ipVars, olVars, pcMain, flushLog, bndAt, appendLog,
                   readAtCancel>>
    /\ UNCHANGED startVars
    /\ UNCHANGED auditVars
    /\ UNCHANGED otherVars

\* mutant: the interceptor enters the critical section without waiting
RLockNoWait ==
    /\ Alive /\ pcR = "lock"
    /\ muHeld' = muHeld \cup {"R"}
    /\ pcR' = "append"
    /\ UNCHANGED <<Commands, now, sigVars, inVars, childVars, rP, rErr, rI, lineBuf,
                   trimmed, rAt, rSnap, readCh, ipVars, olVars, pcMain, crash, histVars>>
    /\ UNCHANGED startVars
    /\ UNCHANGED auditVars
    /\ UNCHANGED otherVars

\* s.session.mu.Lock()
RLock ==
    /\ Alive /\ pcR = "lock"
    /\ muHeld = {}
    /\ muHeld' = muHeld \cup {"R"}
    /\ pcR' = "append"
    /\ UNCHANGED <<Commands, now, sigVars, inVars, childVars, rP, rErr, rI, lineBuf,
                   trimmed, rAt, rSnap, readCh, ipVars, olVars, pcMain, crash, histVars>>
    /\ UNCHANGED startVars
    /\ UNCHANGED auditVars
    /\ UNCHANGED otherVars

\* append(s.session.Commands, ...), first half: read the slice to extend
RAppendRead ==
    /\ Alive /\ pcR = "append"
    /\ rSnap' = Commands
    /\ pcR' = "store"
    /\ UNCHANGED <<sessVars, sigVars, inVars, childVars, rP, rErr, rI, lineBuf,
                   trimmed, rAt, readCh, ipVars, olVars, pcMain, crash, histVars>>
    /\ UNCHANGED startVars
    /\ UNCHANGED auditVars
    /\ UNCHANGED otherVars

\* mutant: the new Command is put in front of the existing ones
RAppendStoreInFront ==
    /\ Alive /\ pcR = "store"
    /\ Commands' = <<NewCommand(now, trimmed)>> \o rSnap
    /\ now' = now + 1
    /\ appendLog' = Append(appendLog, trimmed)
    /\ rSnap' = <<>>
    /\ pcR' = "unlock"
    /\ UNCHANGED <<muHeld, sigVars, inVars, childVars, rP, rErr, rI, lineBuf,
                   trimmed, rAt, readCh, ipVars, olVars, pcMain, crash,
                   sent, flushLog, bndAt, sigLog, readAtCancel>>
    /\ UNCHANGED startVars
    /\ UNCHANGED auditVars
    /\ UNCHANGED otherVars

\* s.session.Commands = append(...), second half: store the extended slice
RAppendStore ==
    /\ Alive /\ pcR = "store"
    /\ Commands' = Append(rSnap, NewCommand(now, trimmed))
    /\ now' = now + 1
    /\ appendLog' = Append(appendLog, trimmed)
    /\ rSnap' = <<>>
    /\ pcR' = "unlock"
    /\ UNCHANGED <<muHeld, sigVars, inVars, childVars, rP, rErr, rI, lineBuf,
                   trimmed, rAt, readCh, ipVars, olVars, pcMain, crash,
                   sent, flushLog, bndAt, sigLog, readAtCancel>>
    /\ UNCHANGED startVars
    /\ UNCHANGED auditVars
    /\ UNCHANGED otherVars

\* s.session.mu.Unlock(), then the next line or the end of the EOF flush
RUnlock ==
    /\ Alive /\ pcR = "unlock"
    /\ muHeld' = muHeld \ {"R"}
    /\ auditLog' = AuditCalls(cfg, trimmed, auditLog)
    /\ pcR' = IF rAt = "line" THEN "scan" ELSE "clear"
    /\ UNCHANGED <<Commands, now, sigVars, inVars, childVars, rP, rErr, rI, lineBuf,
                   trimmed, rAt, rSnap, readCh, ipVars, olVars, pcMain, crash, histVars>>
    /\ UNCHANGED startVars
    /\ UNCHANGED <<opts, cfg, SlackThreadTS, auditDone>>
    /\ UNCHANGED otherVars

\* mutant: the flushed line stays in the buffer
RClearForgotten ==
    /\ Alive /\ pcR = "clear"
    /\ pcR' = "ret"
    /\ UNCHANGED <<sessVars, sigVars, inVars, childVars, rP, rErr, rI, lineBuf, trimmed,
                   rAt, rSnap, readCh, ipVars, olVars, pcMain, crash, histVars>>
    /\ UNCHANGED startVars
    /\ UNCHANGED auditVars
    /\ UNCHANGED otherVars

\* s.lineBuf = nil
RClear ==
    /\ Alive /\ pcR = "clear"
    /\ lineBuf' = <<>>
    /\ pcR' = "ret"
    /\ UNCHANGED <<sessVars, sigVars, inVars, childVars, rP, rErr, rI, trimmed, rAt, rSnap,
                   readCh, ipVars, olVars, pcMain, crash, histVars>>
    /\ UNCHANGED startVars
    /\ UNCHANGED auditVars
    /\ UNCHANGED otherVars

\* return n, err of interceptor.Read, sent by the reader goroutine of
\* ContextReader.Read on readCh (capacity 1, never blocks)
RReturn ==
    /\ Alive /\ pcR = "ret"
    /\ readCh' = <<[n |-> Len(rP), err |-> rErr]>>
    /\ pcR' = "idle"
    /\ UNCHANGED <<sessVars, sigVars, inVars, childVars, rP, rErr, rI, lineBuf,
                   trimmed, rAt, rSnap, ipVars, olVars, pcMain, crash, histVars>>
    /\ UNCHANGED startVars
    /\ UNCHANGED auditVars
    /\ UNCHANGED otherVars

ReaderNext ==
    \/ RUpstream \/ RByte \/ RScan \/ RAtEOF \/ RSelect
    \/ RLock \/ RAppendRead \/ RAppendStore \/ RUnlock \/ RClear \/ RReturn

\* ------------------------------------- input proxy: io.Copy(ptmx, ctxReader)
\* ContextReader.Read up to its select: a fresh readCh and a goroutine that
\* runs cr.r.Read(p)
IPCall ==
    /\ Alive /\ pcIP = "loop"
    /\ pcR = "idle"
    /\ pcR' = "upstream"
    /\ readCh' = <<>>
    /\ pcIP' = "select"
    /\ UNCHANGED <<sessVars, sigVars, inVars, childVars, rP, rErr, rI, lineBuf,
                   trimmed, rAt, rSnap, ipRes, ptyIn, olVars, pcMain, crash, histVars>>
    /\ UNCHANGED startVars
    /\ UNCHANGED auditVars
    /\ UNCHANGED otherVars

\* mutant: io.Copy calls Read again after the cancellation error
IPCancelledRetries ==
    /\ Alive /\ pcIP = "select"
    /\ ctxCancelled
    /\ ipRes' = [n |-> 0, err |-> "canceled"]
    /\ pcIP' = "loop"
    /\ UNCHANGED <<sessVars, sigVars, inVars, childVars, rVars, readCh, ptyIn,
                   olVars, pcMain, crash, histVars>>
    /\ UNCHANGED startVars
    /\ UNCHANGED auditVars
    /\ UNCHANGED otherVars

\* case <-cr.ctx.Done(): return 0, cr.ctx.Err()  (io.Copy stops on the error)
IPCancelled ==
    /\ Alive /\ pcIP = "select"
    /\ ctxCancelled
    /\ ipRes' = [n |-> 0, err |-> "canceled"]
    /\ pcIP' = "exit"
    /\ UNCHANGED <<sessVars, sigVars, inVars, childVars, rVars, readCh, ptyIn,
                   olVars, pcMain, crash, histVars>>
    /\ UNCHANGED startVars
    /\ UNCHANGED auditVars
    /\ UNCHANGED otherVars

\* case res := <-readCh: return res.n, res.err
IPGotRead ==
    /\ Alive /\ pcIP = "select"
    /\ readCh # <<>>
    /\ ipRes' = Head(readCh)
    /\ readCh' = <<>>
    /\ pcIP' = IF Head(readCh).n > 0 THEN "write"
               ELSE IF Head(readCh).err # "nil" THEN "exit" ELSE "loop"
    /\ UNCHANGED <<sessVars, sigVars, inVars, childVars, rVars, ptyIn,
                   olVars, pcMain, crash, histVars>>
    /\ UNCHANGED startVars
    /\ UNCHANGED auditVars
    /\ UNCHANGED otherVars

\* mutant: the proxy forwards the bytes as edited (NUL and erase codes left out)
IPWriteEdited ==
    /\ Alive /\ pcIP = "write"
    /\ IF ptmxClosed
       THEN /\ pcIP' = "exit"
            /\ UNCHANGED ptyIn
       ELSE /\ ptyIn' = ptyIn \o SelectSeq(SubSeq(rP, 1, ipRes.n),
                                            LAMBDA b : b \notin {NUL, BS, DEL})
            /\ pcIP' = IF ipRes.err # "nil" THEN "exit" ELSE "loop"
    /\ UNCHANGED <<sessVars, sigVars, inVars, childVars, rVars, readCh, ipRes,
                   olVars, pcMain, crash, histVars>>
    /\ UNCHANGED startVars
    /\ UNCHANGED auditVars
    /\ UNCHANGED otherVars

\* io.Copy: dst.Write(buf[0:nr]), which fails once the PTY is closed; then
\* the loop ends if the read had reported an error
IPWrite ==
    /\ Alive /\ pcIP = "write"
    /\ IF ptmxClosed
       THEN /\ pcIP' = "exit"
            /\ UNCHANGED ptyIn
       ELSE /\ ptyIn' = ptyIn \o SubSeq(rP, 1, ipRes.n)
            /\ pcIP' = IF ipRes.err # "nil" THEN "exit" ELSE "loop"
    /\ UNCHANGED <<sessVars, sigVars, inVars, childVars, rVars, readCh, ipRes,
                   olVars, pcMain, crash, histVars>>
    /\ UNCHANGED startVars
    /\ UNCHANGED auditVars
    /\ UNCHANGED otherVars

\* deferred: wg.Done()
IPDone ==
    /\ Alive /\ pcIP = "exit"
    /\ wg' = wg - 1
    /\ pcIP' = "close"
    /\ UNCHANGED <<sessVars, cmdCh, cmdChClosed, doneClosed, ctxCancelled, ptmxClosed,
                   inVars, childVars, rVars, readCh, ipRes, ptyIn,
                   olVars, pcMain, crash, histVars>>
    /\ UNCHANGED startVars
    /\ UNCHANGED auditVars
    /\ UNCHANGED otherVars

\* deferred: close(cmdCh)
IPCloseCmdCh ==
    /\ Alive /\ pcIP = "close"
    /\ cmdChClosed' = TRUE
    /\ pcIP' = "exited"
    /\ UNCHANGED <<sessVars, cmdCh, doneClosed, ctxCancelled, ptmxClosed, wg,
                   inVars, childVars, rVars, readCh, ipRes, ptyIn,
                   olVars, pcMain, crash, histVars>>
    /\ UNCHANGED startVars
    /\ UNCHANGED auditVars
    /\ UNCHANGED otherVars

ProxyNext ==
    \/ IPCall \/ IPCancelled \/ IPGotRead \/ IPWrite \/ IPDone \/ IPCloseCmdCh

\* ------------------------------------------------------------ the shell
\* the shell prints its next byte to the PTY
ChildWrite ==
    /\ Alive /\ ptyState = "started" /\ ~childExited /\ childOut # <<>>
    /\ ptyBuf' = Append(ptyBuf, Head(childOut))
    /\ childOut' = Tail(childOut)
    /\ UNCHANGED <<sessVars, sigVars, inVars, childExited, script, rVars, readCh,
                   ipVars, olVars, pcMain, crash, histVars>>
    /\ UNCHANGED startVars
    /\ UNCHANGED auditVars
    /\ UNCHANGED otherVars

\* the shell exits (at any time, whatever it still had to print)
ChildExit ==
    /\ Alive /\ ptyState = "started" /\ ~childExited
    /\ childExited' = TRUE
    /\ UNCHANGED <<sessVars, sigVars, inVars, childOut, ptyBuf, script, rVars,
                   readCh, ipVars, olVars, pcMain, crash, histVars>>
    /\ UNCHANGED startVars
    /\ UNCHANGED auditVars
    /\ UNCHANGED otherVars

ChildNext == ChildWrite \/ ChildExit

\* the interceptor has worked off every keystroke handed to it and is blocked
\* in the upstream read again
ReaderQuiet ==
    stdin = <<>> /\ pcR = "upstream" /\ pcIP = "select" /\ readCh = <<>>

\* the logger has read every byte printed so far
LoggerCaughtUp ==
    ptyBuf = <<>> /\ rdBuf = <<>> /\ pcOL \in {"select", "read"}

\* scripted environment: the next event of the script happens once the
\* previous ones have been worked off: the shell prints a string ("out"),
\* the user types a string ("key"), the shell exits ("exit")
EnvPlay ==
    /\ Alive /\ script # <<>> /\ ~childExited
    /\ LET e == Head(script)
       IN  \/ /\ e.kind = "out" /\ ReaderQuiet
              /\ ptyBuf' = ptyBuf \o e.bytes
              /\ UNCHANGED <<stdin, childExited>>
           \/ /\ e.kind = "key" /\ LoggerCaughtUp
              /\ stdin' = stdin \o e.bytes
              /\ UNCHANGED <<ptyBuf, childExited>>
           \/ /\ e.kind = "exit" /\ LoggerCaughtUp /\ ReaderQuiet
              /\ childExited' = TRUE
              /\ UNCHANGED <<ptyBuf, stdin>>
    /\ script' = Tail(script)
    /\ UNCHANGED <<sessVars, sigVars, stdinEOF, consumed, childOut, rVars, readCh,
                   ipVars, olVars, pcMain, crash, histVars>>
    /\ UNCHANGED startVars
    /\ UNCHANGED auditVars
    /\ UNCHANGED otherVars

\* ------------------------------------------------- output logger goroutine
\* where a branch goes after the select: to the flush if a command is active
FlushOrAfter == IF currentCmdIdx >= 0 THEN "lock" ELSE "after"

\* mutant: the shutdown branch returns without the flush
OLSelectDoneNoFlush ==
    /\ Alive /\ pcOL = "select"
    /\ doneClosed
    /\ olWhy' = "done"
    /\ pcOL' = "after"
    /\ UNCHANGED <<sessVars, sigVars, inVars, childVars, rVars, readCh, ipVars,
                   outputBuf, currentCmdIdx, lastCmdIdx, rdBuf, termOut,
                   pcMain, crash, histVars>>
    /\ UNCHANGED startVars
    /\ UNCHANGED auditVars
    /\ UNCHANGED otherVars

\* case <-done:
OLSelectDone ==
    /\ Alive /\ pcOL = "select"
    /\ doneClosed
    /\ olWhy' = "done"
    /\ pcOL' = FlushOrAfter
    /\ UNCHANGED <<sessVars, sigVars, inVars, childVars, rVars, readCh, ipVars,
                   outputBuf, currentCmdIdx, lastCmdIdx, rdBuf, termOut,
                   pcMain, crash, histVars>>
    /\ UNCHANGED startVars
    /\ UNCHANGED auditVars
    /\ UNCHANGED otherVars

\* case _, ok := <-cmdCh: a buffered boundary (ok), or the closed and drained
\* channel (!ok)
OLSelectCmd ==
    /\ Alive /\ pcOL = "select"
    /\ \/ /\ cmdCh # <<>>
          /\ cmdCh' = Tail(cmdCh)
          /\ olWhy' = "boundary"
          /\ bndAt' = Append(bndAt, Len(termOut))
       \/ /\ cmdCh = <<>> /\ cmdChClosed
          /\ olWhy' = "closed"
          /\ UNCHANGED <<cmdCh, bndAt>>
    /\ pcOL' = FlushOrAfter
    /\ UNCHANGED <<sessVars, cmdChClosed, doneClosed, ctxCancelled, ptmxClosed, wg,
                   inVars, childVars, rVars, readCh, ipVars,
                   outputBuf, currentCmdIdx, lastCmdIdx, rdBuf, termOut,
                   pcMain, crash, sent, flushLog, appendLog, sigLog, readAtCancel>>
    /\ UNCHANGED startVars
    /\ UNCHANGED auditVars
    /\ UNCHANGED otherVars

\* default: taken only when neither channel is ready
OLSelectDefault ==
    /\ Alive /\ pcOL = "select"
    /\ ~doneClosed /\ cmdCh = <<>> /\ ~cmdChClosed
    /\ pcOL' = "read"
    /\ UNCHANGED <<sessVars, sigVars, inVars, childVars, rVars, readCh, ipVars,
                   olWhy, outputBuf, currentCmdIdx, lastCmdIdx, rdBuf, termOut,
                   pcMain, crash, histVars>>
    /\ UNCHANGED startVars
    /\ UNCHANGED auditVars
    /\ UNCHANGED otherVars

\* mutant: the byte is buffered whether or not a command is active
OLReadByteAlwaysBuffers ==
    /\ Alive /\ pcOL = "read"
    /\ \/ /\ rdBuf # <<>> \/ (~ptmxClosed /\ ptyBuf # <<>>)
          /\ LET avail == IF rdBuf # <<>> THEN rdBuf ELSE ptyBuf
             IN  /\ rdBuf' = Tail(avail)
                 /\ ptyBuf' = IF rdBuf # <<>> THEN ptyBuf ELSE <<>>
                 /\ outputBuf' = Append(outputBuf, Head(avail))
                 /\ termOut' = Append(termOut, Head(avail))
          /\ pcOL' = "select"
          /\ UNCHANGED olWhy
       \/ /\ rdBuf = <<>>
          /\ ptmxClosed \/ (ptyBuf = <<>> /\ childExited)
          /\ olWhy' = "error"
          /\ pcOL' = FlushOrAfter
          /\ UNCHANGED <<rdBuf, ptyBuf, outputBuf, termOut>>
    /\ UNCHANGED <<sessVars, sigVars, inVars, childExited, childOut, script, rVars,
                   readCh, ipVars, currentCmdIdx, lastCmdIdx, pcMain, crash, histVars>>
    /\ UNCHANGED startVars
    /\ UNCHANGED auditVars
    /\ UNCHANGED otherVars

\* b, err := ptyReader.ReadByte(): a buffered byte; else a refill from the
\* PTY, which fails when the PTY is closed or the shell is gone and nothing
\* is left to read, and blocks while the shell is alive and silent
OLReadByte ==
    /\ Alive /\ pcOL = "read"
    /\ \/ /\ rdBuf # <<>> \/ (~ptmxClosed /\ ptyBuf # <<>>)
          /\ LET avail == IF rdBuf # <<>> THEN rdBuf ELSE ptyBuf
             IN  /\ rdBuf' = Tail(avail)
                 /\ ptyBuf' = IF rdBuf # <<>> THEN ptyBuf ELSE <<>>
                 /\ outputBuf' = IF currentCmdIdx >= 0
                                 THEN Append(outputBuf, Head(avail)) ELSE outputBuf
                 /\ termOut' = Append(termOut, Head(avail))
          /\ pcOL' = "select"
          /\ UNCHANGED olWhy
       \/ /\ rdBuf = <<>>
          /\ ptmxClosed \/ (ptyBuf = <<>> /\ childExited)
          /\ olWhy' = "error"
          /\ pcOL' = FlushOrAfter
          /\ UNCHANGED <<rdBuf, ptyBuf, outputBuf, termOut>>
    /\ UNCHANGED <<sessVars, sigVars, inVars, childExited, childOut, script, rVars,
                   readCh, ipVars, currentCmdIdx, lastCmdIdx, pcMain, crash, histVars>>
    /\ UNCHANGED startVars
    /\ UNCHANGED auditVars
    /\ UNCHANGED otherVars

\* session.mu.Lock()
OLLock ==
    /\ Alive /\ pcOL = "lock"
    /\ muHeld = {}
    /\ muHeld' = muHeld \cup {"OL"}
    /\ pcOL' = "write"
    /\ UNCHANGED <<Commands, now, sigVars, inVars, childVars, rVars, readCh, ipVars,
                   olWhy, outputBuf, currentCmdIdx, lastCmdIdx, rdBuf, termOut,
                   pcMain, crash, histVars>>
    /\ UNCHANGED startVars
    /\ UNCHANGED auditVars
    /\ UNCHANGED otherVars

\* mutant: the flush goes to the last element of the slice
FlushTargetLast == Len(Commands)

\* the element session.Commands[currentCmdIdx] of the flush (1-based here)
FlushTarget == currentCmdIdx + 1

\* session.Commands[currentCmdIdx].Output = outputBuf.String(); an index
\* past the end of the slice is a runtime panic
OLWrite ==
    /\ Alive /\ pcOL = "write"
    /\ IF FlushTarget \in 1..Len(Commands)
       THEN /\ Commands' = [Commands EXCEPT ![FlushTarget].Output = outputBuf]
            /\ flushLog' = Append(flushLog, <<FlushTarget, outputBuf>>)
            /\ pcOL' = "unlock"
            /\ UNCHANGED crash
       ELSE /\ crash' = "index out of range"
            /\ UNCHANGED <<Commands, flushLog, pcOL>>
    /\ UNCHANGED <<muHeld, now, sigVars, inVars, childVars, rVars, readCh, ipVars,
                   olWhy, outputBuf, currentCmdIdx, lastCmdIdx, rdBuf, termOut,
                   pcMain, sent, bndAt, appendLog, sigLog, readAtCancel>>
    /\ UNCHANGED startVars
    /\ UNCHANGED auditVars
    /\ UNCHANGED otherVars

\* mutant: the boundary branch forgets outputBuf.Reset()
OLUnlockNoReset ==
    /\ Alive /\ pcOL = "unlock"
    /\ muHeld' = muHeld \ {"OL"}
    /\ pcOL' = "after"
    /\ UNCHANGED <<Commands, now, sigVars, inVars, childVars, rVars, readCh, ipVars,
                   olWhy, outputBuf, currentCmdIdx, lastCmdIdx, rdBuf, termOut,
                   pcMain, crash, histVars>>
    /\ UNCHANGED startVars
    /\ UNCHANGED auditVars
    /\ UNCHANGED otherVars

\* session.mu.Unlock(); in the boundary branch also outputBuf.Reset()
OLUnlock ==
    /\ Alive /\ pcOL = "unlock"
    /\ muHeld' = muHeld \ {"OL"}
    /\ outputBuf' = IF olWhy = "boundary" THEN <<>> ELSE outputBuf
    /\ pcOL' = "after"
    /\ UNCHANGED <<Commands, now, sigVars, inVars, childVars, rVars, readCh, ipVars,
                   olWhy, currentCmdIdx, lastCmdIdx, rdBuf, termOut,
                   pcMain, crash, histVars>>
    /\ UNCHANGED startVars
    /\ UNCHANGED auditVars
    /\ UNCHANGED otherVars

\* mutant: the logger returns after a boundary as it does after a flush
OLAfterStopsAtBoundary ==
    /\ Alive /\ pcOL = "after"
    /\ IF olWhy = "boundary"
       THEN /\ currentCmdIdx' = currentCmdIdx + 1
            /\ lastCmdIdx' = currentCmdIdx + 1
            /\ pcOL' = "exit"
       ELSE /\ lastCmdIdx' = currentCmdIdx
            /\ pcOL' = "exit"
            /\ UNCHANGED currentCmdIdx
    /\ UNCHANGED <<sessVars, sigVars, inVars, childVars, rVars, readCh, ipVars,
                   olWhy, outputBuf, rdBuf, termOut, pcMain, crash, histVars>>
    /\ UNCHANGED startVars
    /\ UNCHANGED auditVars
    /\ UNCHANGED otherVars

\* boundary branch: currentCmdIdx++; lastCmdIdx = currentCmdIdx and the loop
\* goes on.  Other branches: lastCmdIdx = currentCmdIdx; return
OLAfter ==
    /\ Alive /\ pcOL = "after"
    /\ IF olWhy = "boundary"
       THEN /\ currentCmdIdx' = currentCmdIdx + 1
            /\ lastCmdIdx' = currentCmdIdx + 1
            /\ pcOL' = "select"
       ELSE /\ lastCmdIdx' = currentCmdIdx
            /\ pcOL' = "exit"
            /\ UNCHANGED currentCmdIdx
    /\ UNCHANGED <<sessVars, sigVars, inVars, childVars, rVars, readCh, ipVars,
                   olWhy, outputBuf, rdBuf, termOut, pcMain, crash, histVars>>
    /\ UNCHANGED startVars
    /\ UNCHANGED auditVars
    /\ UNCHANGED otherVars

\* deferred: wg.Done()
OLDone ==
    /\ Alive /\ pcOL = "exit"
    /\ wg' = wg - 1
    /\ pcOL' = "exited"
    /\ UNCHANGED <<sessVars, cmdCh, cmdChClosed, doneClosed, ctxCancelled, ptmxClosed,
                   inVars, childVars, rVars, readCh, ipVars,
                   olWhy, outputBuf, currentCmdIdx, lastCmdIdx, rdBuf, termOut,
                   pcMain, crash, histVars>>
    /\ UNCHANGED startVars
    /\ UNCHANGED auditVars
    /\ UNCHANGED otherVars

LoggerNext ==
    \/ OLSelectDone \/ OLSelectCmd \/ OLSelectDefault \/ OLReadByte
    \/ OLLock \/ OLWrite \/ OLUnlock \/ OLAfter \/ OLDone

\* ------------------------------------------ StartSession up to cmd.Wait()
\* the state at the call of StartSession(os...), for the keystrokes in and
\* the shell output out: nothing is started yet
InitStartWith(ins, outs, os) ==
    /\ Commands = <<>>
    /\ muHeld = {}
    /\ now = 1
    /\ cmdCh = <<>>
    /\ cmdChClosed = FALSE
    /\ doneClosed = FALSE
    /\ ctxCancelled = FALSE
    /\ ptmxClosed = FALSE
    /\ wg = 0
    /\ crash = "none"
    /\ stdin \in ins
    /\ stdinEOF \in BOOLEAN
    /\ consumed = <<>>
    /\ childExited = FALSE
    /\ childOut \in outs
    /\ ptyBuf = <<>>
    /\ script = <<>>
    /\ pcR = "idle"
    /\ rP = <<>>
    /\ rErr = "nil"
    /\ rI = 1
    /\ lineBuf = <<>>
    /\ trimmed = <<>>
    /\ rAt = "line"
    /\ rSnap = <<>>
    /\ readCh = <<>>
    /\ pcIP = "unborn"
    /\ ipRes = [n |-> 0, err |-> "nil"]
    /\ ptyIn = <<>>
    /\ pcOL = "unborn"
    /\ olWhy = "none"
    /\ outputBuf = <<>>
    /\ currentCmdIdx = -1
    /\ lastCmdIdx = -1
    /\ rdBuf = <<>>
    /\ termOut = <<>>
    /\ pcMain = "start"
    /\ sent = <<>>
    /\ flushLog = <<>>
    /\ bndAt = <<>>
    /\ appendLog = <<>>
    /\ sigLog = <<>>
    /\ readAtCancel = "open"
    /\ opts \in os
    /\ cfg = NoConfig
    /\ SlackThreadTS = ""
    /\ auditLog = <<>>
    /\ auditDone = 0
    /\ rawState = "untried"
    /\ ptyState = "none"

\* StartSession() called with no options
InitStart(ins, outs) == InitStartWith(ins, outs, {<<>>})

\* if term.IsTerminal(fd) { oldState, err := raw.MakeRaw(fd); if err != nil {
\* return &Session{} }; defer raw.TcSetAttr(fd, oldState) }
StartRaw ==
    /\ Alive /\ pcMain = "start"
    /\ \/ /\ rawState' = "notty"
          /\ pcMain' = "startPty"
       \/ /\ rawState' = "raw"
          /\ pcMain' = "startPty"
       \/ /\ rawState' = "failed"
          /\ pcMain' = "returned"
    /\ UNCHANGED <<sessVars, sigVars, inVars, childVars, rVars, readCh, ipVars,
                   olVars, crash, histVars, ptyState>>
    /\ UNCHANGED auditVars
    /\ UNCHANGED otherVars

\* mutant: the error of pty.Start is ignored
StartPtyUnchecked ==
    /\ Alive /\ pcMain = "startPty"
    /\ ptyState' \in {"started", "failed"}
    /\ pcMain' = "spawn"
    /\ UNCHANGED <<sessVars, sigVars, inVars, childVars, rVars, readCh, ipVars,
                   olVars, crash, histVars, rawState>>
    /\ UNCHANGED auditVars
    /\ UNCHANGED otherVars

\* session := &Session{}; ptmx, err := pty.Start(cmd); if err != nil {
\* return session } (the deferred raw.TcSetAttr runs on this return)
StartPty ==
    /\ Alive /\ pcMain = "startPty"
    /\ \/ /\ ptyState' = "started"
          /\ pcMain' = "spawn"
          /\ UNCHANGED rawState
       \/ /\ ptyState' = "failed"
          /\ pcMain' = "returned"
          /\ rawState' = IF rawState = "raw" THEN "restored" ELSE rawState
    /\ UNCHANGED <<sessVars, sigVars, inVars, childVars, rVars, readCh, ipVars,
                   olVars, crash, histVars>>
    /\ UNCHANGED auditVars
    /\ UNCHANGED otherVars

\* cmdCh, done, the options applied to a fresh config, the interceptor,
\* wg.Add(2), the context, and the two go statements: both workers are
\* started and StartSession goes to cmd.Wait()
StartWorkers ==
    /\ Alive /\ pcMain = "spawn"
    /\ cfg' \in ApplyOptions(opts, NoConfig)
    /\ SlackThreadTS' = cfg'.slackThreadTS
    /\ wg' = wg + 2
    /\ pcOL' = "select"
    /\ pcIP' = "loop"
    /\ pcMain' = "wait"
    /\ UNCHANGED <<sessVars, cmdCh, cmdChClosed, doneClosed, ctxCancelled, ptmxClosed,
                   inVars, childVars, rVars, readCh, ipRes, ptyIn,
                   olWhy, outputBuf, currentCmdIdx, lastCmdIdx, rdBuf, termOut,
                   crash, histVars, startVars>>
    /\ UNCHANGED <<opts, auditLog, auditDone>>
    /\ UNCHANGED otherVars

StartNext == StartRaw \/ StartPty \/ StartWorkers

\* ------------------------------------------- StartSession after cmd.Wait()
\* err = cmd.Wait() returns
MainWait ==
    /\ Alive /\ pcMain = "wait"
    /\ childExited
    /\ pcMain' = "closePty"
    /\ UNCHANGED <<sessVars, sigVars, inVars, childVars, rVars, readCh, ipVars,
                   olVars, crash, histVars>>
    /\ UNCHANGED startVars
    /\ UNCHANGED auditVars
    /\ UNCHANGED otherVars

\* _ = ptmx.Close()
MainClosePty ==
    /\ Alive /\ pcMain = "closePty"
    /\ ptmxClosed' = TRUE
    /\ pcMain' = "cancel"
    /\ UNCHANGED <<sessVars, cmdCh, cmdChClosed, doneClosed, ctxCancelled, wg,
                   inVars, childVars, rVars, readCh, ipVars, olVars, crash, histVars>>
    /\ UNCHANGED startVars
    /\ UNCHANGED auditVars
    /\ UNCHANGED otherVars

\* how far the call of ContextReader.Read in progress has come: not called
\* (the proxy is outside Read), its underlying read waiting on os.Stdin,
\* the interceptor working on what it read, or the result sent on readCh
ReadProgress ==
    IF pcIP # "select" THEN "nocall"
    ELSE IF readCh # <<>> THEN "done"
    ELSE IF pcR = "upstream" THEN "blocked"
    ELSE "running"

\* mutant: StartSession forgets to cancel the context
MainCancelForgotten ==
    /\ Alive /\ pcMain = "cancel"
    /\ pcMain' = "closeDone"
    /\ UNCHANGED <<sessVars, sigVars, inVars, childVars, rVars, readCh, ipVars,
                   olVars, crash, histVars>>
    /\ UNCHANGED startVars
    /\ UNCHANGED auditVars
    /\ UNCHANGED otherVars

\* cancel()
MainCancel ==
    /\ Alive /\ pcMain = "cancel"
    /\ ctxCancelled' = TRUE
    /\ pcMain' = "closeDone"
    /\ UNCHANGED <<sessVars, cmdCh, cmdChClosed, doneClosed, ptmxClosed, wg,
                   inVars, childVars, rVars, readCh, ipVars, olVars, crash, histVars>>
    /\ UNCHANGED startVars
    /\ UNCHANGED auditVars
    /\ UNCHANGED otherVars

\* cancel(), with the progress of the read at that moment written down
MainCancelObserved ==
    /\ Alive /\ pcMain = "cancel"
    /\ ctxCancelled' = TRUE
    /\ pcMain' = "closeDone"
    /\ readAtCancel' = ReadProgress
    /\ UNCHANGED <<sessVars, cmdCh, cmdChClosed, doneClosed, ptmxClosed, wg,
                   inVars, childVars, rVars, readCh, ipVars, olVars, crash,
                   sent, flushLog, bndAt, appendLog, sigLog>>
    /\ UNCHANGED startVars
    /\ UNCHANGED auditVars
    /\ UNCHANGED otherVars

\* close(done)
MainCloseDone ==
    /\ Alive /\ pcMain = "closeDone"
    /\ doneClosed' = TRUE
    /\ pcMain' = "wgWait"
    /\ UNCHANGED <<sessVars, cmdCh, cmdChClosed, ctxCancelled, ptmxClosed, wg,
                   inVars, childVars, rVars, readCh, ipVars, olVars, crash, histVars>>
    /\ UNCHANGED startVars
    /\ UNCHANGED auditVars
    /\ UNCHANGED otherVars

\* mutant: StartSession does not wait for the workers
MainReturnNoWait ==
    /\ Alive /\ pcMain = "wgWait"
    /\ pcMain' = "returned"
    /\ rawState' = IF rawState = "raw" THEN "restored" ELSE rawState
    /\ UNCHANGED <<sessVars, sigVars, inVars, childVars, rVars, readCh, ipVars,
                   olVars, crash, histVars, ptyState>>
    /\ UNCHANGED auditVars
    /\ UNCHANGED otherVars

\* wg.Wait() returns, then return session; the deferred cancel() and
\* ptmx.Close() change nothing any more, the deferred raw.TcSetAttr puts the
\* terminal back
MainReturn ==
    /\ Alive /\ pcMain = "wgWait"
    /\ wg = 0
    /\ pcMain' = "returned"
    /\ rawState' = IF rawState = "raw" THEN "restored" ELSE rawState
    /\ UNCHANGED <<sessVars, sigVars, inVars, childVars, rVars, readCh, ipVars,
                   olVars, crash, histVars, ptyState>>
    /\ UNCHANGED auditVars
    /\ UNCHANGED otherVars

MainNext ==
    \/ MainWait \/ MainClosePty \/ MainCancel \/ MainCloseDone \/ MainReturn

\* ------------------------------------------------ output.ToMarkdown
\* the literal texts of ToMarkdown
ExitText == <<101, 120, 105, 116>>
StepHead == <<35, 35, 35, 32, 83, 116, 101, 112, 32>>
CommandHead == <<42, 42, 67, 111, 109, 109, 97, 110, 100, 58, 42, 42, 10>>
FenceSh == <<96, 96, 96, 115, 104, 10>>
FenceEnd == <<10, 96, 96, 96>>
OutputHead == <<10, 42, 42, 79, 117, 116, 112, 117, 116, 58, 42, 42, 10>>
Fence == <<96, 96, 96>>
StepEnd == <<10, 10>>

\* %d of fmt.Sprintf for a non-negative int
RECURSIVE FormatInt(_)
FormatInt(n) ==
    IF n < 10 THEN <<48 + n>> ELSE FormatInt(n \div 10) \o <<48 + (n % 10)>>

\* strings.ToLower, for ASCII letters
ToLower(s) == [k \in 1..Len(s) |-> IF s[k] \in 65..90 THEN s[k] + 32 ELSE s[k]]

\* what one iteration of the loop of ToMarkdown writes for a Command that is
\* not skipped
MdStep(cmd, step) ==
    StepHead \o FormatInt(step) \o <<10>> \o CommandHead \o FenceSh \o cmd.Input
    \o FenceEnd
    \o (IF TrimSpace(cmd.Output) # <<>>
        THEN OutputHead \o Fence \o cmd.Output \o FenceEnd ELSE <<>>)
    \o StepEnd

\* mutant: a skipped Command still takes a step number
RECURSIVE MdLoopCountsSkipped(_, _, _, _)
MdLoopCountsSkipped(cmds, i, step, sb) ==
    IF i > Len(cmds) THEN sb
    ELSE IF TrimSpace(ToLower(cmds[i].Input)) = ExitText
         THEN MdLoopCountsSkipped(cmds, i + 1, step + 1, sb)
         ELSE MdLoopCountsSkipped(cmds, i + 1, step + 1, sb \o MdStep(cmds[i], step))

\* for _, cmd := range session.Commands { ... }: i is the position in the
\* slice, step the next step number, sb the builder
RECURSIVE MdLoop(_, _, _, _)
MdLoop(cmds, i, step, sb) ==
    IF i > Len(cmds) THEN sb
    ELSE IF TrimSpace(ToLower(cmds[i].Input)) = ExitText
         THEN MdLoop(cmds, i + 1, step, sb)
         ELSE MdLoop(cmds, i + 1, step + 1, sb \o MdStep(cmds[i], step))

\* mutant of ToMarkdown with the counting loop above
ToMarkdownCountsSkipped(session) == MdLoopCountsSkipped(session.Commands, 1, 1, <<>>)

\* ToMarkdown(session)
ToMarkdown(session) == MdLoop(session.Commands, 1, 1, <<>>)

\* ------------------------------------------------------- output.ToJSON
\* CommandJSON{Timestamp: cmd.Timestamp, Input: cmd.Input, ...}
CommandJSON(cmd) ==
    [Timestamp |-> cmd.Timestamp, Input |-> cmd.Input, Output |-> cmd.Output,
     Comment |-> cmd.Comment, Redacted |-> cmd.Redacted]

\* for _, cmd := range session.Commands { if cmd.Input == "exit" { continue }
\* sessionJSON.Commands = append(sessionJSON.Commands, CommandJSON{...}) }
RECURSIVE JsonLoop(_, _, _)
JsonLoop(cmds, i, out) ==
    IF i > Len(cmds) THEN out
    ELSE IF cmds[i].Input = ExitText
         THEN JsonLoop(cmds, i + 1, out)
         ELSE JsonLoop(cmds, i + 1, Append(out, CommandJSON(cmds[i])))

\* the SessionJSON value ToJSON builds
BuildSessionJSON(session) ==
    [Commands |-> JsonLoop(session.Commands, 1, <<>>),
     SlackThreadTS |-> session.SlackThreadTS]

\* utf8.DecodeRune: the length of the valid encoding at the head of s (its
\* first byte is 128 or more), 0 when there is none
Utf8Len(s) ==
    LET b0 == s[1]
        n == Len(s)
        Cont(x) == x \in 128..191
    IN  IF b0 \in 194..223
        THEN IF n >= 2 /\ Cont(s[2]) THEN 2 ELSE 0
        ELSE IF b0 \in 224..239
        THEN IF /\ n >= 3
                /\ s[2] \in (IF b0 = 224 THEN 160..191
                             ELSE IF b0 = 237 THEN 128..159 ELSE 128..191)
                /\ Cont(s[3])
             THEN 3 ELSE 0
        ELSE IF b0 \in 240..244
        THEN IF /\ n >= 4
                /\ s[2] \in (IF b0 = 240 THEN 144..191
                             ELSE IF b0 = 244 THEN 128..143 ELSE 128..191)
                /\ Cont(s[3]) /\ Cont(s[4])
             THEN 4 ELSE 0
        ELSE 0

\* a hexadecimal digit, lower case
HexDigit(v) == IF v < 10 THEN 48 + v ELSE 87 + v

\* \u00XX for a byte below 128
EscapeU(c) == <<92, 117, 48, 48, HexDigit(c \div 16), HexDigit(c % 16)>>

\* mutant: bytes that are not UTF-8 are written as they are
RECURSIVE AppendStringRaw(_)
AppendStringRaw(s) ==
    IF s = <<>> THEN <<>>
    ELSE LET c == Head(s)
         IN  IF c = 34 \/ c = 92 THEN <<92, c>> \o AppendStringRaw(Tail(s))
             ELSE IF c = 10 THEN <<92, 110>> \o AppendStringRaw(Tail(s))
             ELSE IF c = 13 THEN <<92, 114>> \o AppendStringRaw(Tail(s))
             ELSE IF c = 9 THEN <<92, 116>> \o AppendStringRaw(Tail(s))
             ELSE IF c < 32 \/ c \in {60, 62, 38} THEN EscapeU(c) \o AppendStringRaw(Tail(s))
             ELSE <<c>> \o AppendStringRaw(Tail(s))

\* encoding/json, the body of a string: quote, backslash and control
\* characters are escaped, so are <, > and &; a byte that is not part of
\* valid UTF-8 is replaced by U+FFFD; U+2028 and U+2029 are escaped
RECURSIVE AppendString(_)
AppendString(s) ==
    IF s = <<>> THEN <<>>
    ELSE LET c == Head(s)
         IN  IF c < 128
             THEN (IF c = 34 \/ c = 92 THEN <<92, c>>
                   ELSE IF c = 10 THEN <<92, 110>>
                   ELSE IF c = 13 THEN <<92, 114>>
                   ELSE IF c = 9 THEN <<92, 116>>
                   ELSE IF c < 32 \/ c \in {60, 62, 38} THEN EscapeU(c)
                   ELSE <<c>>) \o AppendString(Tail(s))
             ELSE LET w == Utf8Len(s)
                  IN  IF w = 0
                      THEN <<92, 117, 102, 102, 102, 100>> \o AppendString(Tail(s))
                      ELSE IF w = 3 /\ s[1] = 226 /\ s[2] = 128 /\ s[3] \in {168, 169}
                      THEN <<92, 117, 50, 48, 50, HexDigit(s[3] - 160)>>
                           \o AppendString(SubSeq(s, 4, Len(s)))
                      ELSE SubSeq(s, 1, w) \o AppendString(SubSeq(s, w + 1, Len(s)))

\* the JSON text of a Go string
EncodeString(s) == <<34>> \o AppendString(s) \o <<34>>

\* the JSON text of a time.Time; the instant t is written here as the
\* decimal number of its clock tick where Go writes RFC 3339
EncodeTime(t) == <<34>> \o FormatInt(t) \o <<34>>

\* the JSON text of a bool
EncodeBool(v) == IF v THEN <<116, 114, 117, 101>> ELSE <<102, 97, 108, 115, 101>>

\* the members of a CommandJSON object in struct order; comment has omitempty
MarshalCommand(c) ==
    << <<"timestamp", EncodeTime(c.Timestamp)>>,
       <<"input", EncodeString(c.Input)>>,
       <<"output", EncodeString(c.Output)>> >>
    \o (IF c.Comment = <<>> THEN <<>> ELSE << <<"comment", EncodeString(c.Comment)>> >>)
    \o << <<"redacted", EncodeBool(c.Redacted)>> >>

\* json.MarshalIndent(sessionJSON, "", "  "): the members of the document in
\* struct order; slack_thread_ts has omitempty
Marshal(sj) ==
    << <<"commands", [k \in 1..Len(sj.Commands) |-> MarshalCommand(sj.Commands[k])]>> >>
    \o (IF sj.SlackThreadTS = <<>> THEN <<>>
        ELSE << <<"slack_thread_ts", EncodeString(sj.SlackThreadTS)>> >>)

\* ToJSON(session)
ToJSON(session) == Marshal(BuildSessionJSON(session))

\* ------------------------------------------------------- json.Unmarshal
\* the object has a member of that name
HasMember(obj, name) == \E k \in 1..Len(obj) : obj[k][1] = name

\* the value of that member
Member(obj, name) == obj[CHOOSE k \in 1..Len(obj) : obj[k][1] = name][2]

\* the value of a hexadecimal digit
HexVal(d) == IF d \in 48..57 THEN d - 48 ELSE IF d \in 97..102 THEN d - 87 ELSE d - 55

\* utf8.EncodeRune for the code points of the basic plane
EncodeRune(cp) ==
    IF cp < 128 THEN <<cp>>
    ELSE IF cp < 2048 THEN <<192 + (cp \div 64), 128 + (cp % 64)>>
    ELSE <<224 + (cp \div 4096), 128 + ((cp \div 64) % 64), 128 + (cp % 64)>>

\* the character of a one-letter escape
Unescaped(c) ==
    IF c = 110 THEN 10 ELSE IF c = 114 THEN 13 ELSE IF c = 116 THEN 9
    ELSE IF c = 98 THEN 8 ELSE IF c = 102 THEN 12 ELSE c

\* the body of a JSON string back to bytes
RECURSIVE Unescape(_)
Unescape(e) ==
    IF e = <<>> THEN <<>>
    ELSE IF Head(e) = 92
         THEN IF e[2] = 117
              THEN EncodeRune(HexVal(e[3]) * 4096 + HexVal(e[4]) * 256
                              + HexVal(e[5]) * 16 + HexVal(e[6]))
                   \o Unescape(SubSeq(e, 7, Len(e)))
              ELSE <<Unescaped(e[2])>> \o Unescape(SubSeq(e, 3, Len(e)))
         ELSE <<Head(e)>> \o Unescape(Tail(e))

\* a JSON string back to a Go string
DecodeString(v) == Unescape(SubSeq(v, 2, Len(v) - 1))

\* a decimal number back to an int
RECURSIVE ParseInt(_)
ParseInt(ds) ==
    IF ds = <<>> THEN 0
    ELSE ParseInt(SubSeq(ds, 1, Len(ds) - 1)) * 10 + (ds[Len(ds)] - 48)

\* a JSON time back to the instant
DecodeTime(v) == ParseInt(SubSeq(v, 2, Len(v) - 1))

\* json.Unmarshal into a CommandJSON: a member that is absent leaves the
\* zero value
UnmarshalCommand(obj) ==
    [Timestamp |-> IF HasMember(obj, "timestamp") THEN DecodeTime(Member(obj, "timestamp")) ELSE 0,
     Input |-> IF HasMember(obj, "input") THEN DecodeString(Member(obj, "input")) ELSE <<>>,
     Output |-> IF HasMember(obj, "output") THEN DecodeString(Member(obj, "output")) ELSE <<>>,
     Comment |-> IF HasMember(obj, "comment") THEN DecodeString(Member(obj, "comment")) ELSE <<>>,
     Redacted |-> IF HasMember(obj, "redacted") THEN Member(obj, "redacted") = <<116, 114, 117, 101>> ELSE FALSE]

\* json.Unmarshal(jsonBytes, &sessionJSON)
Unmarshal(doc) ==
    [Commands |-> IF HasMember(doc, "commands")
                  THEN LET a == Member(doc, "commands")
                       IN  [k \in 1..Len(a) |-> UnmarshalCommand(a[k])]
                  ELSE <<>>,
     SlackThreadTS |-> IF HasMember(doc, "slack_thread_ts")
                       THEN DecodeString(Member(doc, "slack_thread_ts")) ELSE <<>>]

\* ------------------------------------------------- calls of the formatters
\* markdown := output.ToMarkdown(session)
CallToMarkdown ==
    /\ ~md.called
    /\ md' = [called |-> TRUE, text |-> ToMarkdown(fSession)]
    /\ UNCHANGED <<notFmt, fSession, js, parsed>>

\* jsonBytes, err := ToJSON(session)
CallToJSON ==
    /\ ~js.called
    /\ js' = [called |-> TRUE, value |-> BuildSessionJSON(fSession),
              doc |-> ToJSON(fSession)]
    /\ UNCHANGED <<notFmt, fSession, md, parsed>>

\* err = json.Unmarshal(jsonBytes, &sessionJSON)
CallUnmarshal ==
    /\ js.called /\ ~parsed.called
    /\ parsed' = [called |-> TRUE] @@ Unmarshal(js.doc)
    /\ UNCHANGED <<notFmt, fSession, md, js>>

FormatNext == CallToMarkdown \/ CallToJSON \/ CallUnmarshal

\* ------------------------------------------------------ auth: TokenStore
\* KeyringService = "archivist-cli", KeyringTokenKey = "clerk-access-token"
KeyringService == <<97, 114, 99, 104, 105, 118, 105, 115, 116, 45, 99, 108, 105>>
KeyringTokenKey == <<99, 108, 101, 114, 107, 45, 97, 99, 99, 101, 115, 115, 45, 116, 111, 107, 101, 110>>

\* mutant: the map key leaves the key name out
MapKeyServiceOnly(service, key) == service \o <<58>>

\* service + ":" + key, the key of mockKeyring's map
MapKey(service, key) == service \o <<58>> \o key

\* mockKeyring.Set: m.store[service+":"+key] = value
MockSet(store, service, key, value) ==
    [k \in DOMAIN store \cup {MapKey(service, key)} |->
        IF k = MapKey(service, key) THEN value ELSE store[k]]

\* mockKeyring.Get: v, ok := m.store[service+":"+key]; if !ok { return "",
\* keyring.ErrNotFound }; return v, nil
MockGet(store, service, key) ==
    IF MapKey(service, key) \in DOMAIN store
    THEN [value |-> store[MapKey(service, key)], err |-> "nil"]
    ELSE [value |-> <<>>, err |-> "ErrNotFound"]

\* mockKeyring.Delete: delete(m.store, service+":"+key)
MockDelete(store, service, key) ==
    [k \in DOMAIN store \ {MapKey(service, key)} |-> store[k]]

\* StoreToken(store, token)
StoreToken(store, token) == MockSet(store, KeyringService, KeyringTokenKey, token)

\* GetToken(store)
GetToken(store) == MockGet(store, KeyringService, KeyringTokenKey)

\* the tokens, services and key names the store is tried with
Tokens == {<<>>, <<116, 49>>, <<116, 50>>}
Services == {KeyringService, <<111, 116, 104, 101, 114>>}
KeyNames == {KeyringTokenKey, <<114, 101, 102, 114, 101, 115, 104>>}

\* err := StoreToken(mock, token)
CallStoreToken ==
    /\ \E t \in Tokens :
          /\ tokStore' = StoreToken(tokStore, t)
          /\ tokLast' = [has |-> "stored", token |-> t,
                         prev |-> IF tokLast.has = "stored" THEN tokLast.token ELSE t]
    /\ tokGet' = [called |-> FALSE, value |-> <<>>, err |-> "nil"]
    /\ UNCHANGED notTok

\* retrieved, err := GetToken(mock)
CallGetToken ==
    /\ tokGet' = [called |-> TRUE] @@ GetToken(tokStore)
    /\ UNCHANGED <<tokStore, tokLast, notTok>>

\* mock.Delete(service, key), for the token's pair or another one
CallDelete ==
    /\ \E s \in Services, k \in KeyNames :
          /\ tokStore' = MockDelete(tokStore, s, k)
          /\ tokLast' = IF s = KeyringService /\ k = KeyringTokenKey
                        THEN [has |-> "deleted", token |-> <<>>, prev |-> <<>>]
                        ELSE tokLast
    /\ tokGet' = [called |-> FALSE, value |-> <<>>, err |-> "nil"]
    /\ UNCHANGED notTok

\* mock.Set(service, key, value) for another entry of the same keyring
CallSetOther ==
    /\ \E s \in Services, k \in KeyNames, v \in Tokens :
          /\ ~(s = KeyringService /\ k = KeyringTokenKey)
          /\ tokStore' = MockSet(tokStore, s, k, v)
    /\ tokGet' = [called |-> FALSE, value |-> <<>>, err |-> "nil"]
    /\ UNCHANGED <<tokLast, notTok>>

TokenNext == CallStoreToken \/ CallGetToken \/ CallDelete \/ CallSetOther

\* -------------------------------------------------------- api: the client
\* http.StatusOK and http.StatusNotFound as the client compares them
StatusOK == 200
StatusNotFound == 404

\* "backend error: "
BackendErrorText == <<98, 97, 99, 107, 101, 110, 100, 32, 101, 114, 114, 111, 114, 58, 32>>

\* "runbook not found: "
NotFoundText == <<114, 117, 110, 98, 111, 111, 107, 32, 110, 111, 116, 32, 102, 111, 117, 110, 100, 58, 32>>

\* the error values of the client: nil, an error of the transport or of the
\* JSON decoder, fmt.Errorf("backend error: %s", resp.Status) (the status
\* line is written here as the status code), and *RunbookNotFoundError
NilError == [type |-> "nil", msg |-> <<>>, ID |-> <<>>]
TransportError == [type |-> "transport", msg |-> <<>>, ID |-> <<>>]
DecodeError == [type |-> "decode", msg |-> <<>>, ID |-> <<>>]
BackendError(status) ==
    [type |-> "errorString", msg |-> BackendErrorText \o FormatInt(status), ID |-> <<>>]
RunbookNotFoundError(id) ==
    [type |-> "RunbookNotFoundError", msg |-> NotFoundText \o id, ID |-> id]

\* mutant: only server errors are errors
SendMarkdownFrom500(reply) ==
    IF ~reply.sent THEN [resp |-> "nil", doc |-> <<>>, err |-> TransportError]
    ELSE IF reply.status >= 500
    THEN [resp |-> "nil", doc |-> <<>>, err |-> BackendError(reply.status)]
    ELSE IF ~reply.json THEN [resp |-> "nil", doc |-> <<>>, err |-> DecodeError]
    ELSE [resp |-> "out", doc |-> reply.text, err |-> NilError]

\* SendMarkdown(markdown, token) for the reply the backend gives: no reply at
\* all, or a status and a body that is or is not JSON
SendMarkdown(reply) ==
    IF ~reply.sent THEN [resp |-> "nil", doc |-> <<>>, err |-> TransportError]
    ELSE IF reply.status # StatusOK
    THEN [resp |-> "nil", doc |-> <<>>, err |-> BackendError(reply.status)]
    ELSE IF ~reply.json THEN [resp |-> "nil", doc |-> <<>>, err |-> DecodeError]
    ELSE [resp |-> "out", doc |-> reply.text, err |-> NilError]

\* FetchRunbookMarkdown(id, token) for the reply the backend gives
FetchRunbookMarkdown(id, reply) ==
    IF ~reply.sent THEN [markdown |-> <<>>, err |-> TransportError]
    ELSE IF reply.status = StatusNotFound
    THEN [markdown |-> <<>>, err |-> RunbookNotFoundError(id)]
    ELSE IF reply.status # StatusOK
    THEN [markdown |-> <<>>, err |-> BackendError(reply.status)]
    ELSE IF ~reply.json THEN [markdown |-> <<>>, err |-> DecodeError]
    ELSE [markdown |-> reply.text, err |-> NilError]

\* the replies of the backend the client is tried with
Statuses == {200, 201, 204, 301, 400, 401, 404, 500, 503}
Replies ==
    {[sent |-> FALSE, status |-> 0, json |-> FALSE, text |-> <<>>]} \cup
    {[sent |-> TRUE, status |-> st, json |-> j, text |-> IF j THEN x ELSE <<>>] :
        st \in Statuses, j \in BOOLEAN, x \in {<<>>, <<35, 32, 84>>}}
RunbookIds == {<<>>, <<114, 98, 49>>, <<114, 98, 50>>}

\* resp, err := api.SendMarkdown(markdown, token)
CallSendMarkdown ==
    /\ \E reply \in Replies :
          /\ apiReq' = [fn |-> "SendMarkdown", id |-> <<>>, reply |-> reply]
          /\ apiRes' = [markdown |-> <<>>] @@ SendMarkdown(reply)
    /\ UNCHANGED notApi

\* markdown, err := api.FetchRunbookMarkdown(id, token)
CallFetchRunbookMarkdown ==
    /\ \E id \in RunbookIds, reply \in Replies :
          /\ apiReq' = [fn |-> "FetchRunbookMarkdown", id |-> id, reply |-> reply]
          /\ apiRes' = [resp |-> "nil", doc |-> <<>>] @@ FetchRunbookMarkdown(id, reply)
    /\ UNCHANGED notApi

ApiNext == CallSendMarkdown \/ CallFetchRunbookMarkdown

\* -------------------------------------------------------- specifications
\* the keystroke bytes enumerated exhaustively: a letter, a blank, the two
\* line terminators, the two erase codes and NUL
Alphabet == {97, 32, LF, CR, BS, DEL, NUL}

\* all keystroke streams of at most n bytes
Streams(n) == UNION {[1..k -> Alphabet] : k \in 0..n}

\* "abc" BS BS "x\n" and the same with DEL
BackspaceExample == <<97, 98, 99, BS, BS, 120, LF>>
DeleteExample == <<97, 98, 99, DEL, DEL, 120, LF>>
\* "\n   \n\t\n"
BlankExample == <<LF, 32, 32, 32, LF, 9, LF>>
\* "ls"
PartialExample == <<108, 115>>
\* "a\n  b\r\nc \r": mixed terminators
MixedExample == <<97, LF, 32, 32, 98, CR, LF, 99, 32, CR>>

ReadInputs ==
    Streams(MaxLen) \cup
    {BackspaceExample, DeleteExample, BlankExample, PartialExample, MixedExample}

\* keystrokes and shell output of the whole-recorder runs
\* "a", erased again, a NUL and an empty line: no byte ends up in a Command
EditedExample == <<97, BS, NUL, CR>>

SessionInputs ==
    {<<>>, <<97, CR>>, <<97, CR, 98, LF>>, <<97, CR, 98>>, PartialExample,
     EditedExample}
SessionOutputs == {<<>>, <<65, 66>>}

\* the whole recorder
Init == InitWith(SessionInputs, SessionOutputs) /\ script = <<>> /\ OtherIdle

Next == ReaderNext \/ ProxyNext \/ LoggerNext \/ MainNext \/ ChildNext

Spec == Init /\ [][Next]_vars

\* the input proxy and the interceptor on their own, for every keystroke
\* stream: the shell is alive and silent and nothing else is scheduled
InitRead == InitWith(ReadInputs, {<<>>}) /\ script = <<>> /\ OtherIdle

NextRead ==
    \/ RUpstream \/ RByte \/ RScan \/ RAtEOF \/ RSelect
    \/ RLock \/ RAppendRead \/ RAppendStore \/ RUnlock \/ RClear \/ RReturn
    \/ IPCall \/ IPGotRead \/ IPWrite \/ IPDone \/ IPCloseCmdCh

SpecRead == InitRead /\ [][NextRead]_vars

\* the scripted run of the output attribution property: "AAAA", the first
\* command, "BBBB", the second command, "CCCC", end of the PTY stream
AttributionScript ==
    << [kind |-> "out", bytes |-> <<65, 65, 65, 65>>],
       [kind |-> "key", bytes |-> <<97, CR>>],
       [kind |-> "out", bytes |-> <<66, 66, 66, 66>>],
       [kind |-> "key", bytes |-> <<98, CR>>],
       [kind |-> "out", bytes |-> <<67, 67, 67, 67>>],
       [kind |-> "exit", bytes |-> <<>>] >>

\* the user types "ls" without a terminator, then the shell exits
PartialScript ==
    << [kind |-> "key", bytes |-> PartialExample],
       [kind |-> "exit", bytes |-> <<>>] >>

\* a burst of three commands "a", "b", "c" typed at once, then the shell
\* prints "X" and exits
BurstScript ==
    << [kind |-> "key", bytes |-> <<97, CR, 98, CR, 99, CR>>],
       [kind |-> "out", bytes |-> <<88>>],
       [kind |-> "exit", bytes |-> <<>>] >>

InitScript ==
    /\ InitWith({<<>>}, {<<>>})
    /\ script \in {AttributionScript, PartialScript, BurstScript}
    /\ OtherIdle

NextScript == EnvPlay \/ ReaderNext \/ ProxyNext \/ LoggerNext \/ MainNext

SpecScript == InitScript /\ [][NextScript]_vars

\* the whole recorder under fair scheduling of its goroutines (the Go
\* scheduler runs every runnable goroutine); the shell and the keyboard are
\* not obliged to do anything
InitLive ==
    InitWith({<<>>, <<97, CR>>, <<97>>}, {<<>>, <<65>>}) /\ script = <<>> /\ OtherIdle

SpecLive ==
    /\ InitLive
    /\ [][Next]_vars
    /\ WF_vars(MainNext)
    /\ WF_vars(LoggerNext)
    /\ WF_vars(ProxyNext)
    /\ WF_vars(ReaderNext)

\* a goroutine started by go api.SendSlackAudit(...) returns, with or
\* without having reached the audit sink
AuditSendReturns ==
    /\ Alive
    /\ auditDone < Len(auditLog)
    /\ auditDone' = auditDone + 1
    /\ UNCHANGED <<sessVars, sigVars, inVars, childVars, rVars, readCh, ipVars, olVars,
                   pcMain, crash, histVars, startVars, opts, cfg, SlackThreadTS, auditLog>>
    /\ UNCHANGED otherVars

\* StartSession called without options or with WithSlackAudit(channel,
\* token), the channel and the token empty or not; the user types two
\* commands, the second one with or without its terminator, while the shell
\* is alive and silent
AuditOptions ==
    {<<>>} \cup {<<[channel |-> c, token |-> k]>> : c \in {"", "#audit"}, k \in {"", "tok"}}
AuditInputs == {<<97, CR, 98, CR>>, <<97, CR, 98>>}

InitAudit == InitStartWith(AuditInputs, {<<>>}, AuditOptions) /\ OtherIdle

NextAudit == StartNext \/ NextRead \/ AuditSendReturns

SpecAudit == InitAudit /\ [][NextAudit]_vars

\* the whole recorder with the progress of the proxy's read written down
\* when cancel() runs
CancelInputs == {<<>>, <<97>>, <<97, CR>>}

InitCancel == InitWith(CancelInputs, {<<>>, <<65>>}) /\ script = <<>> /\ OtherIdle

NextCancel ==
    \/ ReaderNext \/ ProxyNext \/ LoggerNext \/ ChildNext
    \/ MainWait \/ MainClosePty \/ MainCancelObserved \/ MainCloseDone \/ MainReturn

SpecCancel == InitCancel /\ [][NextCancel]_vars

\* StartSession from its call on: the terminal may or may not be one, and
\* raw mode and the start of the shell may fail
StartInputs == {<<>>, <<97, CR>>, <<97, CR, 98>>}
StartOutputs == {<<>>, <<65>>}

InitFromCall == InitStart(StartInputs, StartOutputs) /\ OtherIdle

NextFromCall == StartNext \/ Next

SpecFromCall == InitFromCall /\ [][NextFromCall]_vars

\* ------------------------------------------------------------ formatters
\* longest Session handed to the formatters
MaxCmds == 2

\* Commands the formatters are tried on: plain ones, "exit" in three
\* spellings, a blank output, and texts with characters JSON escapes
FmtCommands ==
    { [Timestamp |-> 1, Input |-> <<108, 115>>, Output |-> <<104, 105, 10>>,
       Comment |-> <<>>, Redacted |-> FALSE],
      [Timestamp |-> 2, Input |-> ExitText, Output |-> <<>>,
       Comment |-> <<>>, Redacted |-> FALSE],
      [Timestamp |-> 3, Input |-> <<69, 88, 73, 84>>, Output |-> <<98, 121, 101>>,
       Comment |-> <<>>, Redacted |-> FALSE],
      [Timestamp |-> 4, Input |-> <<32, 69, 120, 105, 116, 9>>, Output |-> <<>>,
       Comment |-> <<>>, Redacted |-> FALSE],
      [Timestamp |-> 12, Input |-> <<112, 119, 100>>, Output |-> <<32, 10>>,
       Comment |-> <<99>>, Redacted |-> TRUE],
      [Timestamp |-> 5, Input |-> <<97, 34, 60, 98, 92>>, Output |-> <<195, 169, 27, 226, 128, 168>>,
       Comment |-> <<>>, Redacted |-> FALSE],
      [Timestamp |-> 6, Input |-> <<99, 97, 116>>, Output |-> <<120, 255, 121>>,
       Comment |-> <<>>, Redacted |-> FALSE] }

\* the Sessions of at most n of those Commands, with and without a Slack thread
FmtSessions(n) ==
    { [Commands |-> cs, SlackThreadTS |-> ts] :
        cs \in UNION {[1..k -> FmtCommands] : k \in 0..n},
        ts \in {<<>>, <<49, 46, 50>>} }

\* the formatters on their own, for every such Session; the recorder is not
\* running
InitFormat ==
    /\ InitStart({<<>>}, {<<>>}) /\ stdinEOF = FALSE
    /\ fSession \in FmtSessions(MaxCmds)
    /\ md = [called |-> FALSE, text |-> <<>>]
    /\ js = [called |-> FALSE, value |-> [Commands |-> <<>>, SlackThreadTS |-> <<>>],
             doc |-> <<>>]
    /\ parsed = [called |-> FALSE, Commands |-> <<>>, SlackThreadTS |-> <<>>]
    /\ TokIdle /\ ApiIdle /\ OAuthIdle /\ SpinIdle /\ TuiIdle

SpecFormat == InitFormat /\ [][FormatNext]_vars

\* the recorder is not running
RecorderIdle == InitStart({<<>>}, {<<>>}) /\ stdinEOF = FALSE

\* the token store on its own, from the empty keyring
InitToken == RecorderIdle /\ OtherIdle

SpecToken == InitToken /\ [][TokenNext]_vars

\* the API client on its own
InitApi == RecorderIdle /\ OtherIdle

SpecApi == InitApi /\ [][ApiNext]_vars

\* ------------------------------------------------------------------ C1
\* the shell has exited while the interceptor's upstream read is blocked
\* and neither a keystroke nor end-of-stream will ever arrive
ExitedWhileReadBlocked ==
    childExited /\ pcR = "upstream" /\ stdin = <<>> /\ ~stdinEOF

\* some goroutine or the environment can take a step
CanStep == ENABLED Next

\* C1: if the shell exits while the interceptor's upstream read is blocked for
\* good, both workers exit and StartSession returns; and no state is a
\* deadlock: unless StartSession has returned (or the process has panicked)
\* something can always take a step
ShutdownTerminates ==
    /\ [](CanStep \/ pcMain = "returned" \/ ~Alive)
    /\ (ExitedWhileReadBlocked ~> (pcMain = "returned" /\ wg = 0))

\* witness: StartSession has returned with the reader goroutine still blocked
ShutdownTerminatesWitness ==
    /\ ExitedWhileReadBlocked
    /\ pcMain = "returned" /\ pcOL = "exited" /\ pcIP = "exited"

\* ------------------------------------------------------------------ C2
\* C2: once StartSession has returned the Session, no goroutine changes
\* Session.Commands any more (no append, no output write)
FrozenAfterReturn ==
    [][pcMain = "returned" => Commands' = Commands]_vars

\* ------------------------------------------------------------------ C3
\* the scripted run is over: both boundaries were processed exactly at their
\* position in the output stream (after 4 and after 8 bytes), the logger read
\* all 12 bytes before the stream ended, and StartSession has returned
AttributionRunDone ==
    /\ script = <<>>
    /\ bndAt = <<4, 8>>
    /\ Len(termOut) = 12
    /\ pcOL = "exited"
    /\ pcMain = "returned"

\* C3 as stated: Command[0].output == "AAAA" and Command[1].output == "BBBB"
AttributionAsClaimed ==
    AttributionRunDone =>
        /\ Len(Commands) = 2
        /\ Commands[1].Output = <<65, 65, 65, 65>>
        /\ Commands[2].Output = <<66, 66, 66, 66>>

\* C3 amended: the text before the first boundary is discarded, so
\* Command[0].output == "BBBB" and Command[1].output == "CCCC"
AttributionShifted ==
    AttributionRunDone =>
        /\ Len(Commands) = 2
        /\ Commands[1].Output = <<66, 66, 66, 66>>
        /\ Commands[2].Output = <<67, 67, 67, 67>>

\* witness: the scripted run has ended with both commands recorded
AttributionWitness ==
    /\ AttributionRunDone
    /\ Len(Commands) = 2
    /\ Commands[1].Input = <<97>> /\ Commands[2].Input = <<98>>
    /\ Commands[2].Output = <<67, 67, 67, 67>>

\* ------------------------------------------------------------------ C4
\* C4 as stated: every write of a Command's output changes the element that
\* is the last of Session.Commands at the moment of the write
WritesTargetLast ==
    [][\A k \in 1..Len(Commands) :
          Commands'[k].Output # Commands[k].Output => k = Len(Commands)]_vars

\* C4 amended: every write of a Command's output changes the element at the
\* logger's active index (a later Command may already have been appended);
\* the active index never goes back, so a Command the logger has advanced
\* past is never mutated again
WritesTargetActive ==
    [][/\ \A k \in 1..Len(Commands) :
             Commands'[k] # Commands[k] => (pcOL = "write" /\ k = currentCmdIdx + 1)
       /\ currentCmdIdx' >= currentCmdIdx]_vars

\* witness: an output was written to a Command that is no longer the last one
WritesTargetActiveWitness ==
    /\ Len(Commands) = 2
    /\ Commands[1].Output # <<>>
    /\ Commands[2].Output = <<>>
    /\ Len(flushLog) = 1 /\ currentCmdIdx = 1

\* ------------------------------------------------------------------ C5
\* the fields of a Command other than its output
Identity(c) == <<c.Timestamp, c.Input, c.Comment, c.Redacted>>

\* C5: Commands only grows, by one element at the end; an append leaves the
\* existing elements unchanged; no step changes a field other than output;
\* a step of the logger never changes the length
AppendOnly ==
    [][/\ Len(Commands') \in {Len(Commands), Len(Commands) + 1}
       /\ \A k \in 1..Len(Commands) : Identity(Commands'[k]) = Identity(Commands[k])
       /\ Len(Commands') > Len(Commands) =>
             \A k \in 1..Len(Commands) : Commands'[k] = Commands[k]
       /\ pcOL' # pcOL => Len(Commands') = Len(Commands)]_vars

\* witness: two different commands were appended and the logger has written
\* the output of the first
AppendOnlyWitness ==
    /\ Len(Commands) = 2
    /\ Commands[1].Input # Commands[2].Input
    /\ Commands[1].Output # <<>>

\* ------------------------------------------------------------------ C6
\* every flushed value is still the output of its Command, and every
\* appended Command is still there, in append order
NoLostUpdate ==
    /\ \A j \in 1..Len(flushLog) :
          /\ flushLog[j][1] \in 1..Len(Commands)
          /\ Commands[flushLog[j][1]].Output = flushLog[j][2]
    /\ Len(Commands) = Len(appendLog)
    /\ \A k \in 1..Len(Commands) : Commands[k].Input = appendLog[k]

\* C6: appends and output writes happen inside session.mu, one goroutine at
\* a time, and no update is lost
MutexDiscipline ==
    /\ [](Cardinality(muHeld) <= 1)
    /\ [][/\ Len(Commands') > Len(Commands) => (muHeld = {"R"} /\ muHeld' = {"R"})
          /\ (Commands' # Commands /\ Len(Commands') = Len(Commands)) =>
                (muHeld = {"OL"} /\ muHeld' = {"OL"})]_vars
    /\ [](pcMain = "returned" => NoLostUpdate)

\* witness: the interceptor is inside the mutex appending the second Command
\* while the logger waits for the mutex to write the output of the first
MutexDisciplineWitness ==
    /\ muHeld = {"R"} /\ pcR = "store"
    /\ pcOL = "lock" /\ outputBuf # <<>>
    /\ Len(Commands) = 1

\* ---------------------------------------------- reference line semantics
\* what the claims call lines, written without the interceptor's operators
Blank(b) == b \in {9, 10, 11, 12, 13, 32}
Terminator(b) == b = 10 \/ b = 13
EditByte(b) == b = 8 \/ b = 127 \/ b = 0

\* position of the first line terminator of s, 0 when there is none
FirstTerminator(s) ==
    IF \E k \in 1..Len(s) : Terminator(s[k])
    THEN CHOOSE k \in 1..Len(s) :
            Terminator(s[k]) /\ \A j \in 1..(k - 1) : ~Terminator(s[j])
    ELSE 0

\* the terminated lines of s, in order
RECURSIVE CompletedLines(_)
CompletedLines(s) ==
    LET t == FirstTerminator(s)
    IN  IF t = 0 THEN <<>>
        ELSE <<SubSeq(s, 1, t - 1)>> \o CompletedLines(SubSeq(s, t + 1, Len(s)))

\* what follows the last terminator of s
RECURSIVE PartialLine(_)
PartialLine(s) ==
    LET t == FirstTerminator(s)
    IN  IF t = 0 THEN s ELSE PartialLine(SubSeq(s, t + 1, Len(s)))

\* a line without its leading and trailing blanks
Trimmed(l) ==
    IF \A k \in 1..Len(l) : Blank(l[k]) THEN <<>>
    ELSE LET i == CHOOSE k \in 1..Len(l) : ~Blank(l[k]) /\ \A j \in 1..(k - 1) : Blank(l[j])
             e == CHOOSE k \in 1..Len(l) : ~Blank(l[k]) /\ \A j \in (k + 1)..Len(l) : Blank(l[j])
         IN  SubSeq(l, i, e)

\* the trimmed texts of the non-blank lines among ls, in order
RECURSIVE NonBlankTexts(_)
NonBlankTexts(ls) ==
    IF ls = <<>> THEN <<>>
    ELSE (IF Trimmed(Head(ls)) = <<>> THEN <<>> ELSE <<Trimmed(Head(ls))>>)
         \o NonBlankTexts(Tail(ls))

\* the Input fields of Session.Commands, in order
Inputs == [k \in 1..Len(Commands) |-> Commands[k].Input]

\* every Read so far has returned without end-of-stream, or the interceptor
\* is waiting in the next upstream read
BetweenReads == pcR \in {"idle", "upstream"} /\ rErr = "nil"

\* no erase code and no NUL has been typed
PlainText(s) == \A k \in 1..Len(s) : ~EditByte(s[k])

\* ------------------------------------------------------------------ C7
\* C7: for a stream of plain-text lines ended by LF or CR in any mix,
\* delivered in any chunks, the Commands are the trimmed texts of the
\* non-blank terminated lines, one each, in stream order
LineSegmentation ==
    (BetweenReads /\ PlainText(consumed)) =>
        Inputs = NonBlankTexts(CompletedLines(consumed))

\* witness: one Read delivered "a\n  b\r\nc \r" and completed three lines
LineSegmentationWitness ==
    /\ BetweenReads /\ pcR = "upstream"
    /\ consumed = MixedExample /\ rP = MixedExample
    /\ Inputs = << <<97>>, <<98>>, <<99>> >>

\* ------------------------------------------------------------------ C8
\* C8: a BS or DEL byte removes the last byte of the line buffer, or nothing
\* when it is empty, and leaves Session.Commands alone; "abc" BS BS "x\n"
\* (and the same with DEL) gives the single Command "ax"
BackspaceCorrect ==
    /\ [][(pcR = "bytes" /\ rI <= Len(rP) /\ rP[rI] \in {8, 127}) =>
             /\ lineBuf' = IF lineBuf = <<>> THEN <<>>
                           ELSE SubSeq(lineBuf, 1, Len(lineBuf) - 1)
             /\ rI' = rI + 1
             /\ Commands' = Commands]_vars
    /\ []((BetweenReads /\ consumed \in {BackspaceExample, DeleteExample}) =>
             Inputs = << <<97, 120>> >>)

\* witness: "abc" DEL DEL "x\n" has been read and logged as "ax"
BackspaceCorrectWitness ==
    /\ BetweenReads /\ pcR = "upstream"
    /\ consumed = DeleteExample
    /\ Inputs = << <<97, 120>> >>

\* ------------------------------------------------------------------ C9
\* C9: while only blank bytes (empty or whitespace-only lines) have been
\* typed, the Session has no Command and nothing was sent on cmdCh
BlankLinesDropped ==
    (\A k \in 1..Len(consumed) : Blank(consumed[k])) =>
        /\ Commands = <<>>
        /\ sent = <<>> /\ cmdCh = <<>>
        /\ pcR \notin {"select", "lock", "append", "store", "unlock"}

\* witness: "\n   \n\t\n" has been read, followed by end-of-stream
BlankLinesDroppedWitness ==
    /\ consumed = BlankExample
    /\ pcR = "idle" /\ rErr = "EOF" /\ pcIP = "exited"
    /\ Commands = <<>> /\ sent = <<>>

\* ----------------------------------------------------------------- C10
\* the Commands expected once end-of-stream has been handled: the terminated
\* lines and the trailing partial line
LinesAtEOF(s) == NonBlankTexts(CompletedLines(s) \o <<PartialLine(s)>>)

\* the Read that met end-of-stream is over
ReadEndedAtEOF == pcR \in {"ret", "idle"} /\ rErr = "EOF"

\* C10 as stated: at end-of-stream the non-blank partial line is appended as
\* one Command and its boundary is signalled, and the buffer is empty after
PartialFlushAsClaimed ==
    /\ [][(pcR = "select" /\ rAt = "eof" /\ pcR' # pcR) =>
             (pcR' = "lock" /\ sent' = Append(sent, trimmed))]_vars
    /\ []((ReadEndedAtEOF /\ PlainText(consumed)) =>
             (Inputs = LinesAtEOF(consumed) /\ lineBuf = <<>>))

\* C10 amended: as long as shutdown has not begun (the context is not
\* cancelled), the non-blank partial line is appended as one Command before
\* end-of-stream is returned and the buffer is empty after; its boundary is
\* signalled only if cmdCh has room and is dropped otherwise
PartialFlushBestEffort ==
    /\ [][(pcR = "select" /\ rAt = "eof" /\ ~ctxCancelled /\ pcR' # pcR) =>
             /\ pcR' = "lock"
             /\ sent' = IF Len(cmdCh) < CmdChCap THEN Append(sent, trimmed) ELSE sent]_vars
    /\ []((ReadEndedAtEOF /\ ~ctxCancelled /\ PlainText(consumed)) =>
             (Inputs = LinesAtEOF(consumed) /\ lineBuf = <<>>))

\* witness: "a\rb" then end-of-stream: "b" was appended at end-of-stream
\* while the boundary of "a" still filled cmdCh, so only "a" was signalled
PartialFlushWitness ==
    /\ ReadEndedAtEOF /\ ~ctxCancelled
    /\ consumed = <<97, CR, 98>>
    /\ Inputs = << <<97>>, <<98>> >>
    /\ sent = << <<97>> >>
    /\ lineBuf = <<>>

\* ----------------------------------------------------------------- C11
\* s is an initial part of t
IsPrefix(s, t) == Len(s) <= Len(t) /\ SubSeq(t, 1, Len(s)) = s

\* io.Copy is between two iterations: the last ContextReader.Read has
\* returned and what it returned has been written
ProxyBetweenReads == pcIP = "loop" /\ pcR = "idle"

\* C11 as stated: every byte the interceptor has read from the keystroke
\* source is written to the PTY, once, unmodified and in read order, whenever
\* the proxy is not in the middle of forwarding a Read (or has stopped)
PassthroughAsClaimed ==
    (pcR = "idle" /\ pcIP \in {"loop", "exit", "close", "exited"}) => ptyIn = consumed

\* C11 amended: what was written to the PTY is always an initial part of what
\* the interceptor has read, each write adds exactly the bytes of the Read just
\* returned, and until shutdown closes the PTY every byte read has been
\* written when io.Copy is between two iterations, whether or not it went
\* into a Command
PassthroughUntilClosed ==
    /\ [](IsPrefix(ptyIn, consumed))
    /\ []((ProxyBetweenReads /\ ~ptmxClosed) => ptyIn = consumed)
    /\ [][ptyIn' # ptyIn =>
             (pcIP = "write" /\ ~ptmxClosed /\ ptyIn' = ptyIn \o rP)]_vars

\* witness: "a" BS NUL CR was read and written through to the PTY while none
\* of its bytes went into a Command
PassthroughWitness ==
    /\ ProxyBetweenReads /\ ~ptmxClosed
    /\ consumed = EditedExample /\ ptyIn = EditedExample
    /\ Commands = <<>> /\ lineBuf = <<>>

\* ----------------------------------------------------------------- C12
\* StartSession has returned and both workers have run to their end
RecordingRan ==
    /\ pcMain = "returned"
    /\ ptyState = "started"
    /\ pcOL = "exited" /\ pcIP = "exited"

\* C12: when the switch to raw mode has failed, StartSession still starts the
\* shell under a PTY and runs both workers before it returns, and the
\* terminated lines typed before the shell exits are in the returned Session
RawFailureContinues ==
    (rawState = "failed" /\ pcMain = "returned") =>
        /\ RecordingRan
        /\ IsPrefix(NonBlankTexts(CompletedLines(ptyIn)), Inputs)

\* ----------------------------------------------------------------- C13
\* C13: when pty.Start fails StartSession has returned in the same step, with
\* zero Commands, no worker started, no keystroke read and no panic, and
\* nothing happens afterwards
PtyFailureEmptySession ==
    /\ [](ptyState = "failed" =>
             /\ pcMain = "returned" /\ Alive
             /\ Commands = <<>>
             /\ pcOL = "unborn" /\ pcIP = "unborn" /\ pcR = "idle" /\ wg = 0
             /\ consumed = <<>> /\ ptyIn = <<>> /\ termOut = <<>>
             /\ rawState \in {"notty", "restored"})
    /\ [][ptyState = "failed" => FALSE]_vars

\* witness: the shell could not be started although keystrokes were waiting;
\* the terminal had been switched to raw mode and was put back
PtyFailureWitness ==
    /\ ptyState = "failed" /\ pcMain = "returned"
    /\ rawState = "restored"
    /\ stdin = <<97, CR>> /\ Commands = <<>>

\* ----------------------------------------------------------------- C14
\* the logger has left its loop (its last flush is done)
LoggerStopped == pcOL \in {"exit", "exited"}

\* how many bytes the logger had echoed when it processed the last boundary
LastBoundary == IF bndAt = <<>> THEN 0 ELSE bndAt[Len(bndAt)]

\* the bytes the logger has read from the PTY since the last boundary
ReadSinceBoundary == SubSeq(termOut, LastBoundary + 1, Len(termOut))

\* everything the shell has printed so far
Produced == termOut \o rdBuf \o ptyBuf

\* C14 as stated: the logger leaves its loop only once the shell has exited,
\* and then, all boundaries having been processed, the last Command's output
\* is what the shell printed between that command's boundary and the end
OutputWindowAsClaimed ==
    /\ LoggerStopped => childExited
    /\ (LoggerStopped /\ Commands # <<>> /\ Len(bndAt) = Len(Commands)) =>
          Commands[Len(Commands)].Output =
              SubSeq(Produced, LastBoundary + 1, Len(Produced))

\* C14 amended: the logger leaves its loop only when the shell has exited or
\* the boundary channel was closed because the keystroke stream ended; until
\* then the buffer of the active command is exactly what the logger has read
\* from the PTY since it processed the last boundary, and when the logger
\* stops that is the output of the Command at the active index
OutputWindow ==
    /\ LoggerStopped => (childExited \/ cmdChClosed)
    /\ (cmdChClosed /\ ~childExited) => (stdin = <<>> /\ stdinEOF)
    /\ (pcOL \in {"select", "read"} /\ currentCmdIdx >= 0) =>
          outputBuf = ReadSinceBoundary
    /\ (LoggerStopped /\ currentCmdIdx >= 0) =>
          /\ currentCmdIdx + 1 <= Len(Commands)
          /\ Commands[currentCmdIdx + 1].Output = ReadSinceBoundary

\* witness: the keystroke stream ended after "a\r", the logger stopped with
\* the shell still running, and "AB" is the output of the one Command
OutputWindowWitness ==
    /\ LoggerStopped /\ ~childExited /\ cmdChClosed
    /\ Len(Commands) = 1 /\ currentCmdIdx = 0
    /\ Commands[1].Output = <<65, 66>>

\* ----------------------------------------------------------------- C15
\* a Session without its timestamps: input and output of every Command
SessionShape ==
    [k \in 1..Len(Commands) |-> <<Commands[k].Input, Commands[k].Output>>]

\* the run of the scripted trace "AAAA", "a\r", "BBBB", "b\r", "CCCC", exit
\* is over: every keystroke was read and StartSession has returned
TraceRunDone ==
    /\ script = <<>> /\ pcMain = "returned"
    /\ consumed = <<97, CR, 98, CR>> /\ pcR \in {"idle", "upstream"}

\* C15: the Session a run of that trace returns does not depend on the
\* scheduling of the two workers: one run returns the Commands "a" with
\* output "BBBB" and "b" with output "CCCC", so every run returns them
DeterministicSession ==
    TraceRunDone =>
        SessionShape = << << <<97>>, <<66, 66, 66, 66>> >>,
                          << <<98>>, <<67, 67, 67, 67>> >> >>

\* ----------------------------------------------------------------- C16
\* a text consists of white space only
AllBlank(s) == \A k \in 1..Len(s) : Blank(s[k])

\* a text in lower case and without surrounding white space
Folded(s) == Trimmed([k \in 1..Len(s) |-> IF s[k] \in 65..90 THEN s[k] + 32 ELSE s[k]])

\* the Commands whose input is not "exit"
NotExit(cs) == SelectSeq(cs, LAMBDA c : c.Input # <<101, 120, 105, 116>>)

\* the Commands whose input is not "exit" in any case or spacing
NotExitFolded(cs) == SelectSeq(cs, LAMBDA c : Folded(c.Input) # <<101, 120, 105, 116>>)

\* the step of number k (below 10) for the Command c: its input in a fenced
\* block, and its output in a second one unless the output is blank
StepBlock(k, c) ==
    StepHead \o <<48 + k, 10>> \o CommandHead \o FenceSh \o c.Input \o FenceEnd
    \o (IF AllBlank(c.Output) THEN <<>> ELSE OutputHead \o Fence \o c.Output \o FenceEnd)
    \o StepEnd

\* the steps of the Commands cs from the k-th on, numbered by position
RECURSIVE StepsFrom(_, _)
StepsFrom(cs, k) ==
    IF k > Len(cs) THEN <<>> ELSE StepBlock(k, cs[k]) \o StepsFrom(cs, k + 1)

\* C16 as stated: the Markdown is the steps, numbered from 1 without gaps and
\* in Session order, of exactly the Commands whose input is not "exit"
MarkdownAsClaimed ==
    md.called => md.text = StepsFrom(NotExit(fSession.Commands), 1)

\* C16 amended: the Markdown is the steps, numbered from 1 without gaps and
\* in Session order, of exactly the Commands whose input, in lower case and
\* without surrounding white space, is not "exit"; the output block of a step
\* is there only when the output is not blank; no Command, no text
MarkdownRendering ==
    md.called =>
        /\ md.text = StepsFrom(NotExitFolded(fSession.Commands), 1)
        /\ fSession.Commands = <<>> => md.text = <<>>

\* witness: of "exit", "ls" (output "hi\n") the Markdown is the single step 1
\* of "ls" with its output block
MarkdownWitness ==
    /\ md.called
    /\ Len(fSession.Commands) = 2
    /\ fSession.Commands[1].Input = <<101, 120, 105, 116>>
    /\ fSession.Commands[2].Input = <<108, 115>>
    /\ md.text = StepHead \o <<49, 10>> \o CommandHead \o FenceSh \o <<108, 115>>
                 \o FenceEnd \o OutputHead \o Fence \o <<104, 105, 10>> \o FenceEnd
                 \o StepEnd

\* ----------------------------------------------------------------- C17
\* C17: the commands array of the JSON formatter holds exactly the Commands,
\* in the same order, whose steps the Markdown formatter renders
SameExitFilter ==
    (md.called /\ js.called) => md.text = StepsFrom(js.value.Commands, 1)

\* ----------------------------------------------------------------- C18
\* a text is valid UTF-8
RECURSIVE ValidUTF8(_)
ValidUTF8(s) ==
    IF s = <<>> THEN TRUE
    ELSE IF Head(s) < 128 THEN ValidUTF8(Tail(s))
    ELSE Utf8Len(s) > 0 /\ ValidUTF8(SubSeq(s, Utf8Len(s) + 1, Len(s)))

\* a text with every byte that is not part of valid UTF-8 replaced by U+FFFD
RECURSIVE Coerced(_)
Coerced(s) ==
    IF s = <<>> THEN <<>>
    ELSE IF Head(s) < 128 THEN <<Head(s)>> \o Coerced(Tail(s))
    ELSE IF Utf8Len(s) = 0 THEN <<239, 191, 189>> \o Coerced(Tail(s))
    ELSE SubSeq(s, 1, Utf8Len(s)) \o Coerced(SubSeq(s, Utf8Len(s) + 1, Len(s)))

\* the five fields of a Command
Fields(c) ==
    [Timestamp |-> c.Timestamp, Input |-> c.Input, Output |-> c.Output,
     Comment |-> c.Comment, Redacted |-> c.Redacted]

\* the five fields of a Command with its texts coerced to UTF-8
CoercedFields(c) ==
    [Timestamp |-> c.Timestamp, Input |-> Coerced(c.Input), Output |-> Coerced(c.Output),
     Comment |-> Coerced(c.Comment), Redacted |-> c.Redacted]

\* the SessionJSON has the fields of the Commands whose input is not "exit",
\* in Session order, and the Session's thread; slack_thread_ts is in the
\* document only when it is not empty; an empty Session gives an empty array
JSONEmitted ==
    js.called =>
        /\ js.value.Commands =
              [k \in 1..Len(NotExit(fSession.Commands)) |-> Fields(NotExit(fSession.Commands)[k])]
        /\ js.value.SlackThreadTS = fSession.SlackThreadTS
        /\ HasMember(js.doc, "slack_thread_ts") <=> fSession.SlackThreadTS # <<>>
        /\ HasMember(js.doc, "commands")
        /\ Len(Member(js.doc, "commands")) = Len(NotExit(fSession.Commands))
        /\ fSession.Commands = <<>> => Member(js.doc, "commands") = <<>>

\* C18 as stated: parsing the JSON back yields exactly the fields of the
\* Commands whose input is not "exit" and the Session's thread
JSONRoundTripAsClaimed ==
    /\ JSONEmitted
    /\ parsed.called =>
          /\ parsed.Commands =
                [k \in 1..Len(NotExit(fSession.Commands)) |-> Fields(NotExit(fSession.Commands)[k])]
          /\ parsed.SlackThreadTS = fSession.SlackThreadTS

\* C18 amended: parsing the JSON back yields those fields with every text
\* coerced to UTF-8: a text that is valid UTF-8 comes back as it was, and
\* each byte that is not comes back as U+FFFD
JSONRoundTrip ==
    /\ JSONEmitted
    /\ parsed.called =>
          /\ parsed.Commands =
                [k \in 1..Len(NotExit(fSession.Commands)) |->
                    CoercedFields(NotExit(fSession.Commands)[k])]
          /\ parsed.SlackThreadTS = Coerced(fSession.SlackThreadTS)
          /\ \A k \in 1..Len(parsed.Commands) :
                LET c == NotExit(fSession.Commands)[k]
                IN  /\ ValidUTF8(c.Input) => parsed.Commands[k].Input = c.Input
                    /\ ValidUTF8(c.Output) => parsed.Commands[k].Output = c.Output
                    /\ ValidUTF8(c.Comment) => parsed.Commands[k].Comment = c.Comment

\* witness: a Session of "exit" and a Command with quote, <, backslash, an
\* accent, ESC and U+2028 in its texts came back without the "exit" and
\* with those texts as they were
JSONRoundTripWitness ==
    /\ parsed.called
    /\ Len(fSession.Commands) = 2 /\ fSession.SlackThreadTS # <<>>
    /\ fSession.Commands[1].Input = <<101, 120, 105, 116>>
    /\ fSession.Commands[2].Output = <<195, 169, 27, 226, 128, 168>>
    /\ parsed.Commands = <<Fields(fSession.Commands[2])>>
    /\ parsed.SlackThreadTS = fSession.SlackThreadTS

\* ----------------------------------------------------------------- C19
\* C19: after any sequence of StoreToken, GetToken and Delete (and of writes
\* to other entries of the keyring), GetToken returns without error the token
\* StoreToken stored last, and an error and no token when none is stored
\* (never stored, or deleted since)
TokenRoundTrip ==
    tokGet.called =>
        IF tokLast.has = "stored"
        THEN tokGet.err = "nil" /\ tokGet.value = tokLast.token
        ELSE tokGet.err # "nil" /\ tokGet.value = <<>>

\* witness: "t1" was stored, then "t2", another entry of the keyring holds
\* something else, and GetToken has returned "t2"
TokenRoundTripWitness ==
    /\ tokGet.called /\ tokGet.err = "nil"
    /\ tokGet.value = <<116, 50>>
    /\ tokLast.prev = <<116, 49>>
    /\ \E k \in DOMAIN tokStore : tokStore[k] = <<116, 49>>

\* ----------------------------------------------------------------- C20
\* C20: when the backend replies with a status other than 200 SendMarkdown
\* returns a nil response and an error whose text has "backend error";
\* FetchRunbookMarkdown returns a RunbookNotFoundError with the requested id
\* for 404 and such a backend error for any other status but 200, and the
\* markdown with a nil error only for 200
APIErrorOutcomes ==
    /\ (apiReq.fn = "SendMarkdown" /\ apiReq.reply.sent /\ apiReq.reply.status # 200) =>
          /\ apiRes.resp = "nil"
          /\ apiRes.err.type = "errorString"
          /\ IsPrefix(<<98, 97, 99, 107, 101, 110, 100, 32, 101, 114, 114, 111, 114>>,
                      apiRes.err.msg)
    /\ (apiReq.fn = "FetchRunbookMarkdown" /\ apiReq.reply.sent) =>
          /\ apiReq.reply.status = 404 =>
                /\ apiRes.err.type = "RunbookNotFoundError"
                /\ apiRes.err.ID = apiReq.id
                /\ apiRes.markdown = <<>>
          /\ apiReq.reply.status \notin {200, 404} =>
                /\ apiRes.err.type = "errorString"
                /\ IsPrefix(<<98, 97, 99, 107, 101, 110, 100, 32, 101, 114, 114, 111, 114>>,
                            apiRes.err.msg)
                /\ apiRes.markdown = <<>>
    /\ (apiReq.fn = "FetchRunbookMarkdown" /\ apiRes.err.type = "nil") =>
          /\ apiReq.reply.sent /\ apiReq.reply.status = 200
          /\ apiRes.markdown = apiReq.reply.text

\* witness: the backend replied 404 to the request for the runbook "rb1"
APIErrorOutcomesWitness ==
    /\ apiReq.fn = "FetchRunbookMarkdown" /\ apiReq.id = <<114, 98, 49>>
    /\ apiReq.reply.sent /\ apiReq.reply.status = 404
    /\ apiRes.err.type = "RunbookNotFoundError" /\ apiRes.err.ID = <<114, 98, 49>>

\* ----------------------------------------------------------------- C21
\* the number of boundaries the logger had processed when it read the i-th
\* byte of the PTY output: the byte was buffered for the Command of that
\* 1-based index, or for none when it is 0
ActiveAt(i) == Cardinality({j \in 1..Len(bndAt) : bndAt[j] < i})

\* C21: a byte the shell printed after the boundary signal for Command k was
\* sent is never buffered for a Command with a lower index than k: the logger
\* has processed that boundary before it attributes the byte
BoundaryOrdering ==
    \A s \in 1..Len(sigLog) :
        sigLog[s].ok =>
            \A i \in 1..Len(termOut) :
                i > sigLog[s].at =>
                    (ActiveAt(i) = 0 \/ ActiveAt(i) >= sigLog[s].cmd)

\* ----------------------------------------------------------------- C22
\* the boundary signals cmdCh accepted, in the order the logger receives them
DeliveredSignals == SelectSeq(sigLog, LAMBDA s : s.ok)

\* C22: the append of a Command and its boundary signal are one atomic step:
\* whenever the logger has received the boundary signal of a Command, that
\* Command is in Session.Commands
AppendAndSignalAtomic ==
    \A j \in 1..Len(bndAt) : DeliveredSignals[j].cmd <= Len(Commands)

\* ----------------------------------------------------------------- C23
\* C23: whenever the logger writes Commands[currentCmdIdx].Output (on a
\* boundary, on shutdown, on a PTY read error or on the closed boundary
\* channel), 0 <= currentCmdIdx < len(Commands), and no such write panics
ActiveIndexValid ==
    /\ pcOL = "write" => (0 <= currentCmdIdx /\ currentCmdIdx < Len(Commands))
    /\ crash # "index out of range"

\* ----------------------------------------------------------------- C24
\* C24: each time the logger has processed a boundary signal, the active
\* index is the index in Session.Commands of the Command for which that
\* signal was sent, also after an earlier boundary was dropped on the full
\* channel
BoundaryResynchronizes ==
    (pcOL \in {"select", "read"} /\ currentCmdIdx >= 0) =>
        currentCmdIdx + 1 = DeliveredSignals[Len(bndAt)].cmd

\* ----------------------------------------------------------------- C25
\* C25: when a non-empty line has completed and done is not closed, the
\* select of the interceptor neither blocks nor panics: the boundary is sent
\* or, on the full channel, dropped, and either way the interceptor goes on to
\* append the Command
AppendDespiteDrop ==
    /\ []((Alive /\ pcR = "select") => ENABLED RSelect)
    /\ [][(pcR = "select" /\ ~doneClosed) =>
             /\ crash' # "send on closed channel"
             /\ pcR' # pcR => (pcR' = "lock" /\ Len(sigLog') = Len(sigLog) + 1)]_vars
    /\ [][(pcR = "store" /\ pcR' # pcR) =>
             (Len(Commands') = Len(rSnap) + 1 /\ Commands'[Len(Commands')].Input = trimmed)]_vars

\* ----------------------------------------------------------------- C26
\* C26: strict priority in the logger's loop: when done is closed the next
\* branch the logger takes at its select flushes and exits (the shutdown
\* branch, or the one of the closed boundary channel, which does the same),
\* also with a boundary pending; and while a boundary is pending and done is
\* not closed the logger reads no further byte from the PTY before it has
\* processed it
StrictPriority ==
    /\ [][(pcOL = "select" /\ doneClosed /\ pcOL' # pcOL) =>
             olWhy' \in {"done", "closed"}]_vars
    /\ [][(cmdCh # <<>> /\ ~doneClosed) => termOut' = termOut]_vars

\* ----------------------------------------------------------------- C27
\* C27: shutdown is never starved: once done is closed the logger eventually
\* flushes and leaves its loop, whatever the PTY still has to deliver
ShutdownNotStarved == doneClosed ~> LoggerStopped

\* ----------------------------------------------------------------- C28
\* the state of the orchestration: running until cmd.Wait() returns,
\* child-exited while StartSession closes the PTY, cancels the context and
\* closes done, draining in wg.Wait(), closed once it has returned
Phase ==
    CASE pcMain = "wait" -> "running"
      [] pcMain \in {"closePty", "cancel", "closeDone"} -> "child-exited"
      [] pcMain = "wgWait" -> "draining"
      [] pcMain = "returned" -> "closed"
      [] OTHER -> "starting"

\* the states follow each other in this order, and the PTY is closed, the
\* context cancelled and done closed, in this order, only after cmd.Wait()
\* has returned
ShutdownOrder ==
    /\ [][Phase' # Phase =>
             <<Phase, Phase'>> \in {<<"running", "child-exited">>,
                                    <<"child-exited", "draining">>,
                                    <<"draining", "closed">>}]_vars
    /\ []((ptmxClosed \/ ctxCancelled \/ doneClosed) =>
             (childExited /\ Phase \in {"child-exited", "draining", "closed"}))
    /\ [](doneClosed => ctxCancelled)
    /\ [](ctxCancelled => ptmxClosed)
    /\ [](Phase \in {"draining", "closed"} => doneClosed)

\* C28 as stated: ... and StartSession returns only after both workers have
\* exited
ShutdownSequenceAsClaimed ==
    /\ ShutdownOrder
    /\ [](Phase = "closed" => (pcOL = "exited" /\ pcIP = "exited"))

\* C28 amended: ... and StartSession returns only after both workers have
\* called wg.Done(): the logger has exited and the input proxy has left
\* io.Copy, but its close(cmdCh), which follows its wg.Done(), may still be
\* to come
ShutdownSequence ==
    /\ ShutdownOrder
    /\ [](Phase = "closed" =>
             (wg = 0 /\ pcOL = "exited" /\ pcIP \in {"close", "exited"}))

\* witness: StartSession has returned a Session with a Command while the
\* input proxy has not closed cmdCh yet
ShutdownSequenceWitness ==
    /\ Phase = "closed" /\ pcIP = "close" /\ ~cmdChClosed
    /\ pcOL = "exited" /\ Len(Commands) = 1

\* ----------------------------------------------------------------- C29
\* the outputs of the first n Commands, one after the other
RECURSIVE OutputsUpTo(_)
OutputsUpTo(n) ==
    IF n = 0 THEN <<>> ELSE OutputsUpTo(n - 1) \o Commands[n].Output

\* the bytes the logger has read since it processed its first boundary
ReadSinceFirstBoundary ==
    IF bndAt = <<>> THEN <<>> ELSE SubSeq(termOut, bndAt[1] + 1, Len(termOut))

\* StartSession is past wg.Wait()
WorkersJoined == pcMain = "returned" \/ (pcMain = "wgWait" /\ wg = 0)

\* C29: whichever branch the logger leaves its loop by (done, PTY read error
\* or end, closed boundary channel), if a command is active the buffer has
\* been written to its output when the logger exits; no output is written
\* once the workers are joined; so when StartSession returns the outputs of
\* Commands[0..currentCmdIdx], one after the other, are the bytes the logger
\* read after it processed its first boundary
FinalFlush ==
    /\ []((LoggerStopped /\ currentCmdIdx >= 0) =>
             /\ olWhy \in {"done", "error", "closed"}
             /\ currentCmdIdx < Len(Commands)
             /\ Commands[currentCmdIdx + 1].Output = outputBuf)
    /\ [][WorkersJoined =>
             \A k \in 1..Len(Commands) : Commands'[k].Output = Commands[k].Output]_vars
    /\ []((pcMain = "returned" /\ ptyState = "started") =>
             /\ pcOL = "exited"
             /\ currentCmdIdx < Len(Commands)
             /\ OutputsUpTo(currentCmdIdx + 1) = ReadSinceFirstBoundary)

\* witness: StartSession has returned after the shutdown branch flushed "B"
\* into the second Command, "A" having been flushed into the first by the
\* second boundary
FinalFlushWitness ==
    /\ pcMain = "returned" /\ olWhy = "done"
    /\ Len(Commands) = 2 /\ currentCmdIdx = 1
    /\ Commands[1].Output = <<65>> /\ Commands[2].Output = <<66>>

\* ----------------------------------------------------------------- C30
\* the byte the next successful ptyReader.ReadByte() returns
NextByte == Head(IF rdBuf # <<>> THEN rdBuf ELSE ptyBuf)

\* C30: every byte the logger reads from the PTY is echoed to the terminal,
\* once and in read order, whether or not a command is active, and is
\* buffered only if one is; what is read before the first boundary is
\* processed is in no Command's output: the outputs hold only bytes read
\* after it, in read order
EchoAndDiscard ==
    /\ [][(pcOL = "read" /\ pcOL' = "select") =>
             /\ termOut' = Append(termOut, NextByte)
             /\ outputBuf' = IF currentCmdIdx >= 0
                             THEN Append(outputBuf, NextByte) ELSE outputBuf]_vars
    /\ [][termOut' # termOut => (pcOL = "read" /\ pcOL' = "select")]_vars
    /\ [][Produced' \o childOut' = Produced \o childOut]_vars
    /\ [](bndAt = <<>> =>
             (outputBuf = <<>> /\ \A k \in 1..Len(Commands) : Commands[k].Output = <<>>))
    /\ [](IsPrefix(OutputsUpTo(Len(Commands)), ReadSinceFirstBoundary))

\* witness: "A" was read and echoed before the first boundary was processed
\* and "B" after it: both are on the terminal, only "B" is in the Command
EchoAndDiscardWitness ==
    /\ bndAt = <<1>> /\ termOut = <<65, 66>>
    /\ LoggerStopped
    /\ Len(Commands) = 1 /\ Commands[1].Output = <<66>>

\* ---------------------------------------------------------------- C31
\* C31: a call of ContextReader.Read whose underlying read had completed
\* (its result was on readCh) before cancel() ran does not return the
\* cancellation error; the bytes that read consumed are not dropped
ReadWinsBeforeCancel ==
    (pcIP \in {"exit", "close", "exited"} /\ ipRes.err = "canceled")
        => readAtCancel # "done"

\* ---------------------------------------------------------------- C32
\* C32: a call of ContextReader.Read whose underlying read was still waiting
\* on os.Stdin when cancel() ran returns 0 bytes and the cancellation error,
\* and no caller ever gets what that read produces afterwards
CancelWinsWhileBlocked ==
    (readAtCancel = "blocked" /\ pcIP # "select")
        => ipRes = [n |-> 0, err |-> "canceled"]

\* ---------------------------------------------------------------- C33
\* C33: the proxy starts an underlying read only when the one before has
\* delivered its result, so at most one is in flight at any time and at most
\* one when StartSession has returned; the channel of a read in flight is
\* empty, so the goroutine's send goes through as soon as the read returns
BoundedLeak ==
    /\ pcIP \in {"loop", "write"} => pcR = "idle"
    /\ pcR # "idle" => (readCh = <<>> /\ pcIP \notin {"loop", "write"})
    /\ (Alive /\ pcR = "ret") => ENABLED RReturn

\* StartSession has returned and the read the proxy abandoned is still
\* waiting on os.Stdin
BoundedLeakWitness ==
    /\ pcMain = "returned"
    /\ pcIP = "exited"
    /\ ipRes.err = "canceled"
    /\ pcR = "upstream"

\* ---------------------------------------------------------------- C35
\* C35: no goroutine sends on cmdCh once the input proxy has closed it: the
\* process never dies of the panic such a send raises
NoSendAfterClose == crash # "send on closed channel"

\* ---------------------------------------------------------------- C36
\* the byte loop of StdinInterceptor.Read run over s, starting from buf
RECURSIVE FeedBytes(_, _)
FeedBytes(buf, s) ==
    IF s = <<>> THEN buf ELSE FeedBytes(ApplyByte(buf, Head(s)), Tail(s))

\* the line loop of StdinInterceptor.Read run on buf: the Inputs it logs
RECURSIVE CutLines(_)
CutLines(buf) ==
    LET idx == TermIdx(buf)
    IN  IF idx = -1 THEN <<>>
        ELSE (IF TrimSpace(SubSeq(buf, 1, idx)) # <<>>
              THEN <<TrimSpace(SubSeq(buf, 1, idx))>> ELSE <<>>)
             \o CutLines(SubSeq(buf, idx + 2, Len(buf)))

\* the Inputs logged when the stream s is delivered in one Read
InOneRead(s) == CutLines(FeedBytes(<<>>, s))

\* C36: whatever Reads the keystrokes consumed so far were delivered in, the
\* Inputs of the Commands are those of the same bytes delivered in one Read
ChunkingIndependent == BetweenReads => Inputs = InOneRead(consumed)

\* ---------------------------------------------------------------- C34
\* the command texts of the audit calls made so far
AuditTexts == [k \in 1..Len(auditLog) |-> auditLog[k].command]

\* C34: with audit enabled every appended Command gets one call of
\* api.SendSlackAudit with its trimmed text, made right after the append
\* (the calls are the appended texts, but for the one appended and not yet
\* unlocked); the call is a go statement: the interceptor's step is enabled
\* whatever the earlier sends are doing, and it changes neither the Read's
\* error nor the Commands; without options no call is ever made and
\* Session.SlackThreadTS stays empty
AuditHook ==
    /\ [](cfg.slackAudit =>
            AuditTexts = IF pcR = "unlock"
                         THEN SubSeq(appendLog, 1, Len(appendLog) - 1)
                         ELSE appendLog)
    /\ []((Alive /\ pcR = "unlock") => ENABLED RUnlock)
    /\ [][auditLog' # auditLog =>
             /\ pcR = "unlock" /\ pcR' \in {"scan", "clear"}
             /\ auditLog' = Append(auditLog, [command |-> trimmed,
                                              posted |-> cfg.token # "" /\ cfg.slackChannel # ""])
             /\ rErr' = rErr /\ crash' = crash /\ Commands' = Commands]_vars
    /\ [](opts = <<>> => (auditLog = <<>> /\ SlackThreadTS = "" /\ ~cfg.slackAudit))

\* witness: audit is on with a thread started; two Commands were appended
\* and the Read has returned while both audit sends are still running
AuditHookWitness ==
    /\ cfg.slackAudit /\ SlackThreadTS = ThreadTS
    /\ Inputs = << <<97>>, <<98>> >>
    /\ AuditTexts = << <<97>>, <<98>> >>
    /\ auditLog[1].posted /\ auditLog[2].posted
    /\ auditDone = 0
    /\ pcR = "idle"

\* ------------------------------------------------- auth: WaitForCode
\* callbacks the local server takes during one WaitForCode
MaxCallbacks == 3

\* the queries of the OAuth callback: an error parameter or none, a code
\* parameter or none
CallbackQueries ==
    {[error |-> e, code |-> c] : e \in {"", "access_denied"}, c \in {"", "abc", "xyz"}}

\* the handler of the callback path: what it answers and what it sends on
\* codeCh
HandleCallback(q) ==
    IF q.error # "" THEN [reply |-> q.error, send |-> ""]
    ELSE IF q.code = "" THEN [reply |-> "Missing code", send |-> ""]
    ELSE [reply |-> "Login successful! You can close this window.", send |-> q.code]

\* s without its i-th element
RemoveAt(s, i) == SubSeq(s, 1, i - 1) \o SubSeq(s, i + 1, Len(s))

\* u, err := url.Parse(redirectURI); if err != nil { return "", err }; else
\* the server is started and WaitForCode is at its select
CallWaitForCode ==
    /\ oaPc = "idle"
    /\ \/ /\ oaPc' = "returned"
          /\ oaRet' = [code |-> "", err |-> "parse"]
       \/ /\ oaPc' = "serving"
          /\ UNCHANGED oaRet
    /\ UNCHANGED <<oaPending, oaServed, notOAuth>>

\* a request on the callback path: the handler answers it and blocks in its
\* send on the unbuffered codeCh
OAuthCallback ==
    /\ oaPc = "serving"
    /\ oaServed < MaxCallbacks
    /\ \E q \in CallbackQueries :
          oaPending' = Append(oaPending, HandleCallback(q))
    /\ oaServed' = oaServed + 1
    /\ UNCHANGED <<oaPc, oaRet, notOAuth>>

\* case code := <-codeCh: return code, nil
WaitGotCode ==
    /\ oaPc = "serving"
    /\ \E i \in 1..Len(oaPending) :
          /\ oaRet' = [code |-> oaPending[i].send, err |-> "nil"]
          /\ oaPending' = RemoveAt(oaPending, i)
    /\ oaPc' = "returned"
    /\ UNCHANGED <<oaServed, notOAuth>>

\* case <-time.After(timeout): return "", errors.New("timeout waiting ...")
WaitTimeout ==
    /\ oaPc = "serving"
    /\ oaRet' = [code |-> "", err |-> "timeout"]
    /\ oaPc' = "returned"
    /\ UNCHANGED <<oaPending, oaServed, notOAuth>>

\* the login command: if err != nil { return ... }; else
\* auth.ExchangeCodeForToken(ctx, conf, code, verifier)
LoginAfterWait ==
    /\ oaPc = "returned"
    /\ oaPc' = IF oaRet.err # "nil" THEN "failed" ELSE "exchange"
    /\ UNCHANGED <<oaPending, oaServed, oaRet, notOAuth>>

OAuthNext ==
    CallWaitForCode \/ OAuthCallback \/ WaitGotCode \/ WaitTimeout \/ LoginAfterWait

InitOAuth == RecorderIdle /\ OtherIdle

SpecOAuth == InitOAuth /\ [][OAuthNext]_vars

\* ---------------------------------------------------------------- C37
\* C37: WaitForCode returns a non-empty code with a nil error or an empty
\* code with an error, never an empty code with a nil error
CodeOrError ==
    oaPc \in {"returned", "exchange", "failed"} =>
        (oaRet.code # "") = (oaRet.err = "nil")

\* ------------------------------------------------------------ Spinner
\* calls of Start and Stop made on one Spinner
MaxCalls == 3

\* len(s.frames)
Frames == 10

\* Start: go func() { ticker := ...; for { select { ... } } }()
SpinStart ==
    /\ spPc = "idle"
    /\ spCalls < MaxCalls
    /\ spLoop' = spLoop + 1
    /\ spCalls' = spCalls + 1
    /\ spLast' = "start"
    /\ UNCHANGED <<spPc, spSending, spPos, notSpin>>

\* case <-ticker.C: s.pos = (s.pos + 1) % len(s.frames), the frame is printed
SpinTick ==
    /\ spLoop > 0
    /\ spPos' = (spPos + 1) % Frames
    /\ UNCHANGED <<spPc, spLoop, spSending, spCalls, spLast, notSpin>>

\* Stop is called and reaches s.stop <- true
SpinStopCall ==
    /\ spPc = "idle"
    /\ spCalls < MaxCalls
    /\ spPc' = "stopSend"
    /\ spCalls' = spCalls + 1
    /\ UNCHANGED <<spLoop, spSending, spPos, spLast, notSpin>>

\* s.stop <- true meets case <-s.stop of one animation goroutine (the
\* channel is unbuffered), which goes on to s.done <- true
SpinStopTaken ==
    /\ spPc = "stopSend"
    /\ spLoop > 0
    /\ spLoop' = spLoop - 1
    /\ spSending' = spSending + 1
    /\ spPc' = "stopWait"
    /\ UNCHANGED <<spPos, spCalls, spLast, notSpin>>

\* <-s.done meets s.done <- true: the goroutine returns, Stop clears the
\* line and returns
SpinDoneTaken ==
    /\ spPc = "stopWait"
    /\ spSending > 0
    /\ spSending' = spSending - 1
    /\ spPc' = "idle"
    /\ spLast' = "stop"
    /\ UNCHANGED <<spLoop, spPos, spCalls, notSpin>>

SpinNext == SpinStart \/ SpinTick \/ SpinStopCall \/ SpinStopTaken \/ SpinDoneTaken

InitSpin == RecorderIdle /\ OtherIdle

\* the Spinner with its goroutines scheduled fairly: a send and a receive
\* that can meet do meet
SpecSpin ==
    /\ InitSpin
    /\ [][SpinNext]_vars
    /\ WF_vars(SpinStopTaken)
    /\ WF_vars(SpinDoneTaken)

\* ---------------------------------------------------------------- C39
\* C39: every call of Stop returns, and once Stop has returned no animation
\* goroutine is left
StopReturnsAndStops ==
    /\ (spPc # "idle") ~> (spPc = "idle")
    /\ []((spPc = "idle" /\ spLast = "stop") => (spLoop = 0 /\ spSending = 0))

\* ------------------------------------------------ runbook TUI: Update
\* steps loaded into the TUI
MaxSteps == 2

\* the commands tried: empty, plain text, text with a placeholder at the
\* end, two placeholders around a text
StepCommands == {<<>>, <<"t">>, <<"t", "p">>, <<"p", "t", "p">>}

\* the runbooks parseRunbookSteps hands over: at least one step
Runbooks ==
    UNION {[1..n -> {[Command |-> c] : c \in StepCommands}] : n \in 1..MaxSteps}

\* the keys: "up" stands for the scroll keys without a letter, "x" for any
\* other printable key
Keys == {"up", "o", "esc", "enter", "tab", "shift+tab", "e", "n", "p", "s", "q", "x"}
CharKeys == {"o", "e", "n", "p", "s", "q", "x"}

\* the heights of tea.WindowSizeMsg
Heights == {5, 24}

\* the outcome of one Update: the model it leaves, or a panic
Leaves(m) == {[m |-> m, panic |-> FALSE]}
Panics(m) == {[m |-> m, panic |-> TRUE]}

\* m.steps[m.index] can be evaluated
StepInRange(m) == 0 <= m.index /\ m.index < Len(m.steps)

\* m.steps[m.index].Command = c
SetCommand(m, c) == [m EXCEPT !.steps[m.index + 1].Command = c]

\* case tea.WindowSizeMsg: step := m.steps[m.index]; the step has no
\* description, so headerLines = 5
UpdateWindowSize(m, height) ==
    IF ~StepInRange(m) THEN Panics(m)
    ELSE LET avail == height - 5 - 1 - 2
         IN  Leaves([m EXCEPT !.outputViewportHeight = IF avail < 3 THEN 3 ELSE avail])

\* if m.fullEditMode { switch msg.String() { ... } }
UpdateFullEdit(m, k) ==
    IF k = "enter"
    THEN IF ~StepInRange(m) THEN Panics(m)
         ELSE Leaves(initSegments([SetCommand(m, m.fullEditInput)
                                      EXCEPT !.fullEditMode = FALSE]))
    ELSE IF k = "esc" THEN Leaves([m EXCEPT !.fullEditMode = FALSE])
    ELSE IF k \in CharKeys
         THEN UNION {Leaves([m EXCEPT !.fullEditInput = c]) : c \in StepCommands}
         ELSE Leaves(m)

\* if m.editing { switch msg.String() { ... } }
UpdateEditing(m, k) ==
    IF k = "enter"
    THEN IF m.activeIdx >= Len(m.segments) THEN Panics(m)
         ELSE LET e == [m EXCEPT !.segments[m.activeIdx + 1].Value = m.textInput,
                                 !.editing = FALSE]
              IN  IF ~StepInRange(e) THEN Panics(e)
                  ELSE Leaves(SetCommand(e, FinalCommand(e)))
    ELSE IF k = "esc" THEN Leaves([m EXCEPT !.editing = FALSE])
    ELSE IF k \in CharKeys THEN Leaves([m EXCEPT !.textInput = "v"])
    ELSE Leaves(m)

\* the placeholder "tab" (dir = 1) or "shift+tab" (dir = -1) moves to, as a
\* 0-based index, or -1
NextPlaceholder(m, dir) ==
    LET cand == {i \in 0..(Len(m.segments) - 1) :
                    /\ m.segments[i + 1].Placeholder
                    /\ IF dir = 1 THEN i > m.activeIdx ELSE i < m.activeIdx}
    IN  IF cand = {} THEN -1
        ELSE IF dir = 1 THEN CHOOSE i \in cand : \A j \in cand : i <= j
        ELSE CHOOSE i \in cand : \A j \in cand : i >= j

\* case "tab", "shift+tab"
UpdateTab(m, dir) ==
    LET i == NextPlaceholder(m, dir)
    IN  IF i = -1 THEN Leaves(m)
        ELSE Leaves([m EXCEPT !.activeIdx = i,
                              !.textInput = m.segments[i + 1].Value,
                              !.editing = TRUE])

\* m.index++ or m.index--; m.output = ""; m.initSegments()
MoveTo(m, i) == initSegments([m EXCEPT !.index = i, !.output = ""])

\* the last switch of case tea.KeyMsg
UpdateKey(m, k) ==
    IF k = "tab" THEN UpdateTab(m, 1)
    ELSE IF k = "shift+tab" THEN UpdateTab(m, -1)
    ELSE IF k = "e"
         THEN IF ~StepInRange(m) THEN Panics(m)
              ELSE Leaves([m EXCEPT !.fullEditInput = m.steps[m.index + 1].Command,
                                    !.fullEditMode = TRUE])
    ELSE IF k = "n"
         THEN Leaves(IF m.index < Len(m.steps) - 1 THEN MoveTo(m, m.index + 1) ELSE m)
    ELSE IF k = "p"
         THEN Leaves(IF m.index > 0 THEN MoveTo(m, m.index - 1) ELSE m)
    ELSE IF k = "s"
         THEN Leaves(IF m.index < Len(m.steps) - 1 THEN MoveTo(m, m.index + 1)
                     ELSE [m EXCEPT !.index = Len(m.steps)])
    ELSE IF k = "q" THEN Leaves([m EXCEPT !.quitting = TRUE])
    ELSE IF k = "enter"
         THEN IF ~StepInRange(m) THEN Panics(m)
              ELSE Leaves([SetCommand(m, FinalCommand(m)) EXCEPT !.busy = TRUE])
    ELSE IF k = "o"
         THEN Leaves(IF m.output # "" THEN [m EXCEPT !.outputFocused = ~m.outputFocused]
                     ELSE m)
    ELSE Leaves(m)

\* case tea.KeyMsg
UpdateKeyMsg(m, k) ==
    IF m.outputFocused /\ k = "up" THEN Leaves(m)
    ELSE IF m.outputFocused /\ k \in {"o", "esc"}
         THEN Leaves([m EXCEPT !.outputFocused = FALSE])
    ELSE IF m.fullEditMode THEN UpdateFullEdit(m, k)
    ELSE IF m.editing THEN UpdateEditing(m, k)
    ELSE UpdateKey(m, k)

\* case commandResultMsg
UpdateResult(m, out) == Leaves([m EXCEPT !.output = out, !.busy = FALSE])

\* the TUI is running: started, not quit, not panicked
TuiRunning == Len(rb.steps) > 0 /\ ~rb.quitting /\ ~rbPanic

\* p := tea.NewProgram(NewRunbookModel(steps), ...); p.Start()
RunbookStart ==
    /\ rb.steps = <<>>
    /\ \E steps \in Runbooks : rb' = NewRunbookModel(steps)
    /\ UNCHANGED <<rbPanic, notTui>>

\* Update(tea.WindowSizeMsg)
RunbookWindowSize ==
    /\ TuiRunning
    /\ \E h \in Heights : \E r \in UpdateWindowSize(rb, h) :
          rb' = r.m /\ rbPanic' = r.panic
    /\ UNCHANGED notTui

\* Update(tea.KeyMsg)
RunbookKey ==
    /\ TuiRunning
    /\ \E k \in Keys : \E r \in UpdateKeyMsg(rb, k) :
          rb' = r.m /\ rbPanic' = r.panic
    /\ UNCHANGED notTui

\* Update(commandResultMsg): the result of a command run before
RunbookResult ==
    /\ TuiRunning
    /\ \E out \in {"", "out"} : \E r \in UpdateResult(rb, out) :
          rb' = r.m /\ rbPanic' = r.panic
    /\ UNCHANGED notTui

TuiNext == RunbookStart \/ RunbookWindowSize \/ RunbookKey \/ RunbookResult

InitTui == RecorderIdle /\ OtherIdle

SpecTui == InitTui /\ [][TuiNext]_vars

\* ---------------------------------------------------------------- C38
\* C38: on a runbook with at least one step no message makes Update
\* evaluate steps[index] with index out of range, also after the last step
\* was skipped
StepAccessInRange == ~rbPanic

====
